---------------------------- MODULE Spec2Model ----------------------------
(***************************************************************************)
(* Verification model of the ATSNE embedding projector core:               *)
(*   - DataSet t-SNE driver (src/src/TSNE/data.ts): projectTSNE and its    *)
(*     frame-scheduled step loop, perturbTsne, stopTSNE, the pause flag    *)
(*     and the neighbor cache (nearest, nearestK);                         *)
(*   - streamParse (data-provider, src/unnamed/part_001);                  *)
(*   - DataSet.computeSequences (src/src/TSNE/data.ts);                    *)
(*   - findKNN and findKNNGPUCosine (src/src/TSNE/knn.ts);                 *)
(*   - DataSet.mergeMetadata (src/src/TSNE/data.ts);                       *)
(*   - parseTensors and parseRawTensors (src/unnamed/part_001);            *)
(*   - parseTensorsFromFloat32Array, analyzeMetadata, parseMetadata and    *)
(*     retrieveSpriteAndMetadataInfo (src/unnamed/part_001);               *)
(*   - DataSet.getSubset, normalize, projectLinear, setSupervision and     *)
(*     setSuperviseFactor (src/src/TSNE/data.ts).                          *)
(* Each component has its own specification over the shared variable list; *)
(* the variables of the other components stay at their idle values.        *)
(***************************************************************************)
EXTENDS Integers, Sequences, FiniteSets, TLC

(* ------------------------------ bounds -------------------------------- *)
\* number of projectTSNE calls explored
MaxRuns == 2
\* number of solution updates (step / perturb) explored per engine
MaxVer == 2
\* number of points of the DataSet driven by the t-SNE loop
NumPoints == 2

\* longest byte buffer handed to streamParse
MaxLen == 4
\* number of points handed to computeSequences
NumSeqPoints == 4

(* --------------------------- program constants ------------------------ *)
TSNE_SAMPLE_SIZE == 10000
\* the default delimiter of streamParse, '\n'
Delim == 10

(* ------------------------------ variables ----------------------------- *)
VARIABLES
  \* DataSet fields (data.ts 116-136)
  shuffledDataIndices, projections, pointProjections, nearest, nearestK,
  tSNEIteration, tSNEShouldPause, tSNEShouldStop,
  superviseFactor, superviseLabels, superviseInput, hasTSNERun, tsne,
  \* the TSNE engine objects created by projectTSNE, by engine id
  engine,
  \* one entry per projectTSNE call: its closure and its place in the
  \* promise chain / frame schedule
  run, numRuns,
  \* observations: step callback invocations, engine calls, stop requests
  cbNull, cbIter, cbLast, lastCall, stopRequested,
  \* streamParse (part_001 106-148): arguments, closure variables, the
  \* records handed to the callback and the state of the promise
  content, chunkSize, offset, data, delivered, streamPc,
  \* computeSequences (data.ts 148-190): the points' metadata, the locals
  \* of the scan and the position in its loops
  pointMetadata, scanIndex, indicesSeen, indexToSequence, sequences,
  newSequence, currentIndex, seqPc,
  \* findKNN / findKNNGPUCosine (knn.ts 45-173): the call, its arguments
  \* (number of points, k, the dot products of the points' unit vectors,
  \* whether the dist argument exits early), the locals of the CPU loops,
  \* the locals of the accelerated blocks, the state of the promise and the
  \* values passed to resolve
  knnCall, knnN, knnK, dotProd, distExitsEarly,
  kMin, cpuI, cpuJ, abortedPairs,
  gpuNearest, gpuOffset, piece, gpuFailed, blocksAfterFailure,
  knnPc, knnResolved,
  \* mergeMetadata (data.ts 369-404): the metadata of the points, the
  \* field spriteAndMetadataInfo, the last argument and the last result
  pointsMetadata, spriteAndMetadataInfo, mergeArg, mergeReturned, numMerges,
  \* parseTensors / parseRawTensors (part_001 86-90, 151-201): the closure
  \* variables data and numDim, whether the row callback has thrown, the
  \* state of the promise and the calls of the DataSet callback
  tensorData, numDim, tensorThrew, tensorPromise, rawCallbacks,
  \* parseTensorsFromFloat32Array (part_001 204-226) and the DataSet
  \* constructor (data.ts 139-146): the length of the array argument, the
  \* argument dim, the state of the promise, the points it resolves with,
  \* and the fields points and dim of the DataSet constructed from parsed
  \* points
  floatLength, floatDim, floatPc, floatPoints, dataSetPoints, dataSetDim,
  \* analyzeMetadata (part_001 228-281): the arguments columnNames and
  \* pointsMetadata as passed, the metadata objects after the call and the
  \* returned column statistics
  analyzeColumns, rawMetadata, analyzedMetadata, columnStats, analyzePc,
  \* parseMetadata (part_001 283-327): the closure variables pointsMetadata,
  \* hasHeader, lineNumber and columnNames, the state of the promise and
  \* the value it resolved with
  metaPoints, hasHeader, lineNumber, metaColumns, metaPromise, metaResult,
  \* getSubset / normalize / projectLinear on a DataSet and its subsets
  \* (data.ts 207-248): the DataSet objects as lists of points that refer
  \* to vector and projections objects, the two kinds of objects by
  \* reference, and the last operation
  dataSets, vectorHeap, projectionHeap, subsetOp,
  \* setSupervision / setSuperviseFactor (data.ts 340-364): the values of
  \* the supervise column in the points' metadata and the last call
  columnValues, superviseCall,
  \* retrieveSpriteAndMetadataInfo (part_001 339-396): its path arguments,
  \* the two promises, the image the sprite promise resolved with, the
  \* promise of Promise.all and the arguments of the callback's calls
  spriteArgs, metadataPromise, spritesPromise, spriteImage, allPromise,
  spriteCallbacks

driverVars ==
  << shuffledDataIndices, projections, pointProjections, nearest, nearestK,
     tSNEIteration, tSNEShouldPause, tSNEShouldStop,
     superviseFactor, superviseLabels, superviseInput, hasTSNERun, tsne,
     engine, run, numRuns, cbNull, cbIter, cbLast, lastCall, stopRequested >>

streamVars == << content, chunkSize, offset, data, delivered, streamPc >>

seqVars ==
  << pointMetadata, scanIndex, indicesSeen, indexToSequence, sequences,
     newSequence, currentIndex, seqPc >>

knnVars ==
  << knnCall, knnN, knnK, dotProd, distExitsEarly, kMin, cpuI, cpuJ,
     abortedPairs, gpuNearest, gpuOffset, piece, gpuFailed,
     blocksAfterFailure, knnPc, knnResolved >>

mergeVars ==
  << pointsMetadata, spriteAndMetadataInfo, mergeArg, mergeReturned, numMerges >>

tensorVars ==
  << tensorData, numDim, tensorThrew, tensorPromise, rawCallbacks >>

floatVars ==
  << floatLength, floatDim, floatPc, floatPoints, dataSetPoints, dataSetDim >>

analyzeVars ==
  << analyzeColumns, rawMetadata, analyzedMetadata, columnStats, analyzePc >>

metaVars ==
  << metaPoints, hasHeader, lineNumber, metaColumns, metaPromise, metaResult >>

subsetVars == << dataSets, vectorHeap, projectionHeap, subsetOp >>

superviseVars == << columnValues, superviseCall >>

spriteVars ==
  << spriteArgs, metadataPromise, spritesPromise, spriteImage, allPromise,
     spriteCallbacks >>

vars ==
  << driverVars, streamVars, seqVars, knnVars, mergeVars, tensorVars,
     floatVars, analyzeVars, metaVars, subsetVars, superviseVars,
     spriteVars >>

(* ------------------------------- values ------------------------------- *)
Runs == 1..MaxRuns
Points == 0..(NumPoints - 1)
\* this.tsne is undefined before the first run and null after a stop tick
NoEngine == 0
\* the value of `nearest` after construction: the empty array []
EmptyTable == [computedForK |-> -1]
\* the table a KNN computation over the sampled points yields for K = k
KnnTable(k) == [computedForK |-> k]
NullTable == [computedForK |-> -2]
\* perplexity arguments, in tenths (5 stands for 0.5)
Perplexities == {5, 10}
TsneDims == {2, 3}
\* the label arguments and the direction arguments of projectLinear
LinearLabels == {"pca-0"}
Dirs == {1, 2}
ProjKeys == {"tsne-0", "tsne-1", "tsne-2"} \cup LinearLabels
Absent == << >>
NullIter == -1

Min(a, b) == IF a < b THEN a ELSE b

\* the object {} and the assignment obj[key] = val
EmptyObject == [k \in {} |-> TRUE]
SetKey(obj, key, val) ==
  [k \in DOMAIN obj \cup {key} |-> IF k = key THEN val ELSE obj[k]]

Shuffles(S) ==
  { s \in [1..Cardinality(S) -> S] : \A x \in S : \E i \in DOMAIN s : s[i] = x }

\* Math.floor(3 * perplexity), perplexity given in tenths
FloorK(perplexityTenths) == (3 * perplexityTenths) \div 10

\* shuffledDataIndices.slice(0, TSNE_SAMPLE_SIZE)
SampledIndices(shuffled) == SubSeq(shuffled, 1, Min(Len(shuffled), TSNE_SAMPLE_SIZE))

\* tsne.getSolution()[idx] of engine e after `ver` updates
Solution(e, ver, idx) == << e, ver, idx >>

\* dot(points[p].vector, dir)
dot(p, dir) == << NoEngine, dir, p >>

NoRun == [phase |-> "none", k |-> 0, tsneDim |-> 0, sampledIndices |-> << >>]
NoEngineState ==
  [inited |-> FALSE, table |-> NullTable, initBy |-> 0,
   ver |-> 0, dim |-> 0, labels |-> << >>, input |-> "", factor |-> 0]

(* ------------------------------- Init --------------------------------- *)
DriverInit ==
  /\ shuffledDataIndices \in Shuffles(Points)
  /\ projections = EmptyObject
  /\ pointProjections = [p \in Points |-> [key \in ProjKeys |-> Absent]]
  /\ nearest = EmptyTable
  /\ nearestK = 0
  /\ tSNEIteration = 0
  /\ tSNEShouldPause = FALSE
  /\ tSNEShouldStop = TRUE
  /\ superviseFactor = 0
  /\ superviseLabels = << >>
  /\ superviseInput = ""
  /\ hasTSNERun = FALSE
  /\ tsne = NoEngine
  /\ engine = [e \in Runs |-> NoEngineState]
  /\ run = [r \in Runs |-> NoRun]
  /\ numRuns = 0
  /\ cbNull = [r \in Runs |-> 0]
  /\ cbIter = [r \in Runs |-> 0]
  /\ cbLast = << 0, NullIter >>
  /\ lastCall = [op |-> "none", eng |-> NoEngine, inited |-> TRUE]
  /\ stopRequested = [r \in Runs |-> FALSE]

\* no parse is in progress
StreamIdle ==
  /\ content = << >>
  /\ chunkSize = 1
  /\ offset = 0
  /\ data = << >>
  /\ delivered = << >>
  /\ streamPc = "idle"

\* the points driven by the t-SNE loop carry no link attribute: the
\* constructor's computeSequences has returned no sequence
SeqIdle ==
  /\ pointMetadata = << >>
  /\ scanIndex = 0
  /\ indicesSeen = << >>
  /\ indexToSequence = << >>
  /\ sequences = << >>
  /\ newSequence = 0
  /\ currentIndex = -1
  /\ seqPc = "idle"

\* no neighbor search is in progress
KnnIdle ==
  /\ knnCall = "none"
  /\ knnN = 0
  /\ knnK = 0
  /\ dotProd = << >>
  /\ distExitsEarly = FALSE
  /\ kMin = << >>
  /\ cpuI = 0
  /\ cpuJ = 0
  /\ abortedPairs = 0
  /\ gpuNearest = << >>
  /\ gpuOffset = 0
  /\ piece = 0
  /\ gpuFailed = FALSE
  /\ blocksAfterFailure = 0
  /\ knnPc = "idle"
  /\ knnResolved = << >>

\* the value of a field that was never assigned
Undefined == [call |-> 0]

\* mergeMetadata has not been called
MergeIdle ==
  /\ pointsMetadata = << >>
  /\ spriteAndMetadataInfo = Undefined
  /\ mergeArg = Undefined
  /\ mergeReturned = "none"
  /\ numMerges = 0

\* no tensor file is being parsed
TensorIdle ==
  /\ tensorData = << >>
  /\ numDim = -1
  /\ tensorThrew = FALSE
  /\ tensorPromise = "none"
  /\ rawCallbacks = 0

\* no Float32Array is being parsed and no DataSet is being constructed
NotConstructed == << >>
FloatIdle ==
  /\ floatLength = 0
  /\ floatDim = 0
  /\ floatPc = "idle"
  /\ floatPoints = << >>
  /\ dataSetPoints = << >>
  /\ dataSetDim = NotConstructed

\* analyzeMetadata has not been called
AnalyzeIdle ==
  /\ analyzeColumns = << >>
  /\ rawMetadata = << >>
  /\ analyzedMetadata = << >>
  /\ columnStats = << >>
  /\ analyzePc = "idle"

\* no metadata file is being parsed
MetaIdle ==
  /\ metaPoints = << >>
  /\ hasHeader = FALSE
  /\ lineNumber = 0
  /\ metaColumns = << >>
  /\ metaPromise = "none"
  /\ metaResult = << >>

\* no subset has been taken
SubsetIdle ==
  /\ dataSets = << >>
  /\ vectorHeap = << >>
  /\ projectionHeap = << >>
  /\ subsetOp = << >>

\* no supervision call has been made; the points carry no supervise column
NoCall == [op |-> "none", threw |-> FALSE]
SuperviseIdle ==
  /\ columnValues = << >>
  /\ superviseCall = NoCall

\* retrieveSpriteAndMetadataInfo has not been called; a promise that
\* carries a value is the pair of its state and the value
NoMetadataPromise == << "none", "" >>
SpriteIdle ==
  /\ spriteArgs = << >>
  /\ metadataPromise = NoMetadataPromise
  /\ spritesPromise = "none"
  /\ spriteImage = << >>
  /\ allPromise = "none"
  /\ spriteCallbacks = << >>

Init ==
  /\ DriverInit /\ StreamIdle /\ SeqIdle /\ KnnIdle /\ MergeIdle /\ TensorIdle
  /\ FloatIdle /\ AnalyzeIdle /\ MetaIdle /\ SubsetIdle
  /\ SuperviseIdle /\ SpriteIdle

(* ------------------------- the t-SNE driver --------------------------- *)
\* the forEach of step / perturbTsne: row i of the solution goes to point
\* sampled[i] under the keys tsne-0, tsne-1 and, for 3 dimensions, tsne-2
\* a projections object whose unassigned keys are lost
KeptValueCleared(pp, p, key) == Absent

\* a key of a point's projections that a write does not assign keeps its
\* value
KeptValue(pp, p, key) == pp[p][key]

WriteSolution(pp, sampled, e, ver, dim) ==
  [p \in Points |->
     IF \E i \in DOMAIN sampled : sampled[i] = p
       THEN LET i0 == (CHOOSE i \in DOMAIN sampled :
                         /\ sampled[i] = p
                         /\ \A j \in DOMAIN sampled : sampled[j] = p => j <= i) - 1
            IN [key \in ProjKeys |->
                  IF key = "tsne-0" THEN Solution(e, ver, i0 * dim + 0)
                  ELSE IF key = "tsne-1" THEN Solution(e, ver, i0 * dim + 1)
                  ELSE IF key = "tsne-2" /\ dim = 3
                    THEN Solution(e, ver, i0 * dim + 2)
                  ELSE KeptValue(pp, p, key)]
       ELSE pp[p]]

\* the step callback is the closure argument of run r
CallbackNull(r) ==
  /\ cbNull' = [cbNull EXCEPT ![r] = @ + 1]
  /\ cbLast' = << r, NullIter >>
  /\ UNCHANGED cbIter

CallbackIter(r, iter) ==
  /\ cbIter' = [cbIter EXCEPT ![r] = @ + 1]
  /\ cbLast' = << r, iter >>
  /\ UNCHANGED cbNull

\* a step closure whose pause test never skips the computation
PausedNever == FALSE

\* the test of the pause flag in the step closure: if (!this.tSNEShouldPause)
Paused == tSNEShouldPause

\* is the step closure of a run in a position where it computes
StepComputes == ~tSNEShouldStop /\ ~Paused /\ tsne # NoEngine

\* the body of the closure `step` of run r; eng is the engine table as it is
\* when the closure runs
Step(r, eng) ==
  IF tSNEShouldStop THEN
    /\ projections' = SetKey(projections, "tsne", FALSE)
    /\ CallbackNull(r)
    /\ tsne' = NoEngine
    /\ hasTSNERun' = FALSE
    /\ run' = [run EXCEPT ![r].phase = "halted"]
    /\ engine' = eng
    /\ UNCHANGED << pointProjections, tSNEIteration, lastCall >>
  ELSE IF Paused THEN
    /\ run' = [run EXCEPT ![r].phase = "sched"]
    /\ engine' = eng
    /\ UNCHANGED << projections, pointProjections, tSNEIteration, tsne,
                    hasTSNERun, cbNull, cbIter, cbLast, lastCall >>
  ELSE IF tsne = NoEngine THEN
    \* TypeError: the closure ends without requestAnimationFrame
    /\ run' = [run EXCEPT ![r].phase = "dead"]
    /\ engine' = eng
    /\ UNCHANGED << projections, pointProjections, tSNEIteration, tsne,
                    hasTSNERun, cbNull, cbIter, cbLast, lastCall >>
  ELSE
    /\ lastCall' = [op |-> "step", eng |-> tsne, inited |-> eng[tsne].inited]
    /\ \E threw \in (IF eng[tsne].inited THEN {FALSE} ELSE BOOLEAN) :
         IF threw THEN
           /\ run' = [run EXCEPT ![r].phase = "dead"]
           /\ engine' = eng
           /\ UNCHANGED << projections, pointProjections, tSNEIteration, tsne,
                           hasTSNERun, cbNull, cbIter, cbLast >>
         ELSE
           /\ engine' = [eng EXCEPT ![tsne].ver = @ + 1]
           /\ pointProjections' =
                WriteSolution(pointProjections, run[r].sampledIndices, tsne,
                              eng[tsne].ver + 1, run[r].tsneDim)
           /\ projections' = SetKey(projections, "tsne", TRUE)
           /\ tSNEIteration' = tSNEIteration + 1
           /\ CallbackIter(r, tSNEIteration + 1)
           /\ run' = [run EXCEPT ![r].phase = "sched"]
           /\ UNCHANGED << tsne, hasTSNERun >>

\* projectTSNE(perplexity, learningRate, tsneDim, stepCallback) up to the
\* registration of the continuation on knnComputation
ProjectTSNE(perplexity, tsneDim) ==
  /\ UNCHANGED << streamVars, seqVars, knnVars, mergeVars, tensorVars,
                  floatVars, analyzeVars, metaVars, subsetVars,
                  superviseVars, spriteVars >>
  /\ numRuns < MaxRuns
  /\ LET r == numRuns + 1
         k == FloorK(perplexity)
         sampled == SampledIndices(shuffledDataIndices)
         reuse == nearest # NullTable /\ k = nearestK
     IN
       /\ numRuns' = r
       /\ hasTSNERun' = TRUE
       /\ tsne' = r
       /\ engine' = [engine EXCEPT ![r] =
             [inited |-> FALSE, table |-> NullTable,
              initBy |-> 0, ver |-> 0, dim |-> tsneDim,
              labels |-> superviseLabels, input |-> superviseInput,
              factor |-> superviseFactor]]
       /\ tSNEShouldPause' = FALSE
       /\ tSNEShouldStop' = FALSE
       /\ tSNEIteration' = 0
       /\ IF reuse
            THEN \* Promise.resolve(this.nearest): the continuation runs
                 \* before any other task and queues the init task
                 /\ run' = [run EXCEPT ![r] =
                      [phase |-> "init", k |-> k, tsneDim |-> tsneDim,
                       sampledIndices |-> sampled]]
                 /\ UNCHANGED nearestK
            ELSE /\ nearestK' = k
                 /\ run' = [run EXCEPT ![r] =
                      [phase |-> "knn", k |-> k, tsneDim |-> tsneDim,
                       sampledIndices |-> sampled]]
       /\ UNCHANGED << shuffledDataIndices, projections, pointProjections,
                       nearest, superviseFactor, superviseLabels,
                       superviseInput, cbNull, cbIter, cbLast, lastCall,
                       stopRequested >>

\* knnComputation.then((nearest) => ...) of a run that started findKNN /
\* findKNNGPUCosine: the promise resolves with the table for the run's k
KnnThen(r) ==
  /\ UNCHANGED << streamVars, seqVars, knnVars, mergeVars, tensorVars,
                  floatVars, analyzeVars, metaVars, subsetVars,
                  superviseVars, spriteVars >>
  /\ run[r].phase = "knn"
  /\ nearest' = KnnTable(run[r].k)
  /\ run' = [run EXCEPT ![r].phase = "init"]
  /\ UNCHANGED << shuffledDataIndices, projections, pointProjections, nearestK,
                  tSNEIteration, tSNEShouldPause, tSNEShouldStop,
                  superviseFactor, superviseLabels, superviseInput,
                  hasTSNERun, tsne, engine, numRuns, cbNull, cbIter, cbLast,
                  lastCall, stopRequested >>

\* the task of runAsyncTask('Initializing T-SNE...') followed by .then(step)
InitTask(r) ==
  /\ UNCHANGED << streamVars, seqVars, knnVars, mergeVars, tensorVars,
                  floatVars, analyzeVars, metaVars, subsetVars,
                  superviseVars, spriteVars >>
  /\ run[r].phase = "init"
  /\ IF tsne = NoEngine THEN
       \* this.tsne.initDataDist throws: the promise rejects, step never runs
       /\ run' = [run EXCEPT ![r].phase = "failed"]
       /\ UNCHANGED << projections, pointProjections, tSNEIteration, tsne,
                       hasTSNERun, engine, cbNull, cbIter, cbLast, lastCall >>
     ELSE
       LET eng == [engine EXCEPT ![tsne].inited = TRUE,
                                 ![tsne].table = nearest,
                                 ![tsne].initBy = r]
       IN /\ (StepComputes => eng[tsne].ver < MaxVer)
          /\ Step(r, eng)
  /\ UNCHANGED << shuffledDataIndices, nearest, nearestK, tSNEShouldPause,
                  tSNEShouldStop, superviseFactor, superviseLabels,
                  superviseInput, numRuns, stopRequested >>

\* requestAnimationFrame(step) fires for run r
Tick(r) ==
  /\ UNCHANGED << streamVars, seqVars, knnVars, mergeVars, tensorVars,
                  floatVars, analyzeVars, metaVars, subsetVars,
                  superviseVars, spriteVars >>
  /\ run[r].phase = "sched"
  /\ (StepComputes => engine[tsne].ver < MaxVer)
  /\ Step(r, engine)
  /\ UNCHANGED << shuffledDataIndices, nearest, nearestK, tSNEShouldPause,
                  tSNEShouldStop, superviseFactor, superviseLabels,
                  superviseInput, numRuns, stopRequested >>

\* perturbTsne()
PerturbTsne ==
  /\ UNCHANGED << streamVars, seqVars, knnVars, mergeVars, tensorVars,
                  floatVars, analyzeVars, metaVars, subsetVars,
                  superviseVars, spriteVars >>
  /\ hasTSNERun /\ tsne # NoEngine
  /\ engine[tsne].ver < MaxVer
  /\ lastCall' = [op |-> "perturb", eng |-> tsne, inited |-> engine[tsne].inited]
  /\ \E threw \in (IF engine[tsne].inited THEN {FALSE} ELSE BOOLEAN) :
       IF threw THEN UNCHANGED << engine, pointProjections >>
       ELSE /\ engine' = [engine EXCEPT ![tsne].ver = @ + 1]
            /\ pointProjections' =
                 WriteSolution(pointProjections,
                               SampledIndices(shuffledDataIndices), tsne,
                               engine[tsne].ver + 1, engine[tsne].dim)
  /\ UNCHANGED << shuffledDataIndices, projections, nearest, nearestK,
                  tSNEIteration, tSNEShouldPause, tSNEShouldStop,
                  superviseFactor, superviseLabels, superviseInput,
                  hasTSNERun, tsne, run, numRuns, cbNull, cbIter, cbLast,
                  stopRequested >>

\* a run is Running or Paused once its loop is on the frame schedule
RunningOrPaused(r) == run[r].phase = "sched"

\* stopTSNE()
StopTSNE ==
  /\ UNCHANGED << streamVars, seqVars, knnVars, mergeVars, tensorVars,
                  floatVars, analyzeVars, metaVars, subsetVars,
                  superviseVars, spriteVars >>
  /\ tSNEShouldStop' = TRUE
  /\ stopRequested' = [r \in Runs |-> stopRequested[r] \/ RunningOrPaused(r)]
  /\ UNCHANGED << shuffledDataIndices, projections, pointProjections, nearest,
                  nearestK, tSNEIteration, tSNEShouldPause, superviseFactor,
                  superviseLabels, superviseInput, hasTSNERun, tsne, engine,
                  run, numRuns, cbNull, cbIter, cbLast, lastCall >>

\* the owner of the DataSet writes the public field tSNEShouldPause
SetPause(b) ==
  /\ UNCHANGED << streamVars, seqVars, knnVars, mergeVars, tensorVars,
                  floatVars, analyzeVars, metaVars, subsetVars,
                  superviseVars, spriteVars >>
  /\ tSNEShouldPause # b
  /\ tSNEShouldPause' = b
  /\ UNCHANGED << shuffledDataIndices, projections, pointProjections, nearest,
                  nearestK, tSNEIteration, tSNEShouldStop, superviseFactor,
                  superviseLabels, superviseInput, hasTSNERun, tsne, engine,
                  run, numRuns, cbNull, cbIter, cbLast, lastCall,
                  stopRequested >>

\* projectLinear(dir, label)
ProjectLinear(dir, label) ==
  /\ UNCHANGED << streamVars, seqVars, knnVars, mergeVars, tensorVars,
                  floatVars, analyzeVars, metaVars, subsetVars,
                  superviseVars, spriteVars >>
  /\ projections' = SetKey(projections, label, TRUE)
  /\ pointProjections' =
       [p \in Points |->
          [key \in ProjKeys |->
             IF key = label THEN dot(p, dir)
             ELSE KeptValue(pointProjections, p, key)]]
  /\ UNCHANGED << shuffledDataIndices, nearest, nearestK, tSNEIteration,
                  tSNEShouldPause, tSNEShouldStop, superviseFactor,
                  superviseLabels, superviseInput, hasTSNERun, tsne, engine,
                  run, numRuns, cbNull, cbIter, cbLast, lastCall,
                  stopRequested >>

DriverNext ==
  \/ \E p \in Perplexities, d \in TsneDims : ProjectTSNE(p, d)
  \/ \E r \in Runs : KnnThen(r)
  \/ \E r \in Runs : InitTask(r)
  \/ \E r \in Runs : Tick(r)
  \/ PerturbTsne
  \/ StopTSNE
  \/ \E b \in BOOLEAN : SetPause(b)

Next == DriverNext

Spec == Init /\ [][Next]_vars

\* the t-SNE operations together with the linear projections of the DataSet
DataSetNext ==
  \/ DriverNext
  \/ \E dir \in Dirs, label \in LinearLabels : ProjectLinear(dir, label)

DataSetSpec == Init /\ [][DataSetNext]_vars

(* --------------------- claims about the t-SNE driver ------------------ *)
\* the loops of the DataSet that are live: awaiting the neighbor
\* computation, about to be started by the init task, or on the schedule
LiveLoops == { r \in Runs : run[r].phase \in {"knn", "init", "sched"} }

\* C1: once stopTSNE() was called while run r was Running or Paused, the
\* run is terminally stopped: its callback gets no iteration number any
\* more, gets null at most once, and a halted loop stays halted.
C1_StopIsTerminal ==
  [][\A r \in Runs :
       stopRequested[r] =>
         /\ cbIter'[r] = cbIter[r]
         /\ cbNull'[r] <= 1
         /\ (run[r].phase = "halted" => run'[r].phase = "halted")]_vars

\* C2: no cross-run concurrency: at most one step loop of the DataSet is
\* live in every reachable state.
C2_SingleLiveLoop == Cardinality(LiveLoops) <= 1

\* C3: the neighbor table passed to tsne.initDataDist was computed by the
\* KNN engine for K = floor(3 * perplexity) of the run that passes it.
C3_InitTableMatchesK ==
  \A e \in Runs :
    engine[e].inited => engine[e].table = KnnTable(run[engine[e].initBy].k)

\* C4: tsne.step() and tsne.perturb() are never invoked on an engine on
\* which initDataDist has not been called.
C4_EngineInitedBeforeUse ==
  lastCall.op \in {"step", "perturb"} => lastCall.inited

PauseFrame ==
  << tSNEIteration, pointProjections, projections, nearest, nearestK, tsne,
     engine, hasTSNERun, cbNull, cbIter, cbLast, lastCall >>

\* C23: while tSNEShouldPause is set and the run is not stopped, a frame
\* tick of a scheduled step closure can always run, every such tick leaves
\* the iteration count, all projections, the neighbor cache and the engine
\* untouched, invokes no callback and puts the closure back on the
\* schedule; clearing the flag changes none of them either, so that
\* stepping resumes from the same count with the same cache.
C23_PausedTicksOnlyReschedule ==
  \A r \in Runs :
    (run[r].phase = "sched" /\ tSNEShouldPause /\ ~tSNEShouldStop) =>
      /\ ENABLED Tick(r)
      /\ ~ENABLED (Tick(r) /\ (PauseFrame' # PauseFrame \/ run'[r].phase # "sched"))
      /\ ~ENABLED (SetPause(FALSE) /\ PauseFrame' # PauseFrame)

\* a run was paused after it had stepped and written projections
C23_Witness ==
  \E r \in Runs :
    /\ run[r].phase = "sched" /\ tSNEShouldPause /\ ~tSNEShouldStop
    /\ tSNEIteration > 0
    /\ \E p \in Points : pointProjections[p]["tsne-0"] # Absent

\* the tick in which a step closure finds the stop flag set
StopTick == \E r \in Runs : run[r].phase # "halted" /\ run'[r].phase = "halted"

\* C30: no step of the DataSet removes a key from a point's projections,
\* and the stop tick leaves every projection value as it was while it
\* discards the engine handle and clears hasTSNERun.
C30_ProjectionsNeverRemoved ==
  [][/\ \A p \in Points, key \in ProjKeys :
          pointProjections[p][key] # Absent => pointProjections'[p][key] # Absent
     /\ StopTick =>
          /\ pointProjections' = pointProjections
          /\ tsne' = NoEngine
          /\ hasTSNERun' = FALSE]_vars

\* a 2-dimensional run has stepped on points that carry the third
\* coordinate of an earlier 3-dimensional run and a linear projection, and
\* was then halted by its stop tick
C30_Witness ==
  \E r \in Runs :
    /\ run[r].phase = "halted" /\ run[r].tsneDim = 2 /\ cbIter[r] > 0
    /\ \A p \in Points :
         /\ pointProjections[p]["tsne-2"] # Absent
         /\ pointProjections[p]["pca-0"] # Absent
         /\ pointProjections[p]["tsne-0"][1] = r

\* stopTSNE() was called while the latest run was Running or Paused and no
\* run has been started since
StoppedRun == numRuns > 0 /\ stopRequested[numRuns] /\ tSNEShouldStop

\* C24: once stopTSNE() was called on a Running or Paused run, a
\* perturbTsne() call neither calls the engine nor writes a projection.
C24_PerturbAfterStopIsNoOp ==
  [][(StoppedRun /\ PerturbTsne) =>
       UNCHANGED << engine, pointProjections, lastCall >>]_vars

\* the 0-based place of point p in the sample of the DataSet, -1 if the
\* point is not sampled
SamplePlace(p) ==
  LET sampled == SubSeq(shuffledDataIndices, 1, Min(NumPoints, TSNE_SAMPLE_SIZE))
  IN IF \E i \in DOMAIN sampled : sampled[i] = p
       THEN (CHOOSE i \in DOMAIN sampled : sampled[i] = p) - 1
       ELSE -1

\* C25: every run samples the first min(N, TSNE_SAMPLE_SIZE) entries of
\* shuffledDataIndices, and every step or perturb that writes projections
\* writes row i of the solution of the engine it called into the point
\* sampled at place i, leaving the points outside the sample unchanged.
C25_SampleCapAndRowMapping ==
  [][/\ \A r \in Runs :
          run'[r].phase # "none" =>
            /\ Len(run'[r].sampledIndices) <= TSNE_SAMPLE_SIZE
            /\ run'[r].sampledIndices =
                 SubSeq(shuffledDataIndices, 1, Min(NumPoints, TSNE_SAMPLE_SIZE))
     /\ pointProjections' # pointProjections =>
          \A p \in Points :
            LET i == SamplePlace(p)
                d == engine[tsne].dim
                row(c) == Solution(tsne, engine'[tsne].ver, i * d + c)
            IN IF i < 0
                 THEN pointProjections'[p] = pointProjections[p]
                 ELSE /\ pointProjections'[p]["tsne-0"] = row(0)
                      /\ pointProjections'[p]["tsne-1"] = row(1)
                      /\ (d = 3 => pointProjections'[p]["tsne-2"] = row(2))]_vars

(* ------------------------------ streamParse --------------------------- *)
\* the byte values of a buffer: the delimiter and the letters a, b
StreamBytes == {Delim, 97, 98}
Buffers == UNION { [1..n -> StreamBytes] : n \in 0..MaxLen }
\* chunk sizes up to one more than the longest buffer
ChunkSizes == 1..(MaxLen + 1)

\* String.prototype.split for a one-character separator
RECURSIVE Split(_, _)
Split(str, d) ==
  IF \A i \in DOMAIN str : str[i] # d
    THEN << str >>
    ELSE LET j == CHOOSE i \in DOMAIN str :
                    str[i] = d /\ \A h \in 1..(i - 1) : str[h] # d
         IN << SubSeq(str, 1, j - 1) >> \o Split(SubSeq(str, j + 1, Len(str)), d)

\* content.slice(from, to) read as text (one byte per character)
Slice(c, from, to) == SubSeq(c, from + 1, Min(to, Len(c)))

StreamStart == [offset |-> 0, data |-> << >>, delivered |-> << >>, pc |-> "reading"]

\* readHandler(str) for the chunk readChunk(st.offset, size) has read; an
\* offset past the end of the buffer is kept at Len(c) + size, which
\* slices and compares like every larger offset
ReadHandlerResult(c, size, st) ==
  LET str == Slice(c, st.offset, st.offset + size)
      off == Min(st.offset + size, Len(c) + size)
      bufferSize == Len(c) - 1
      parts == Split(str, Delim)
      first == st.data \o parts[1]
  IN IF Len(parts) = 1
       THEN [offset |-> off, data |-> first, delivered |-> st.delivered,
             pc |-> "reading"]
       ELSE LET last == parts[Len(parts)]
                out == st.delivered \o << first >>
                         \o SubSeq(parts, 2, Len(parts) - 1)
            IN IF off >= bufferSize
                 THEN [offset |-> off, data |-> last,
                       delivered |-> IF last # << >> THEN Append(out, last) ELSE out,
                       pc |-> "resolved"]
                 ELSE [offset |-> off, data |-> last, delivered |-> out,
                       pc |-> "reading"]

\* file.onload fires for the pending chunk read
ReadHandler ==
  /\ streamPc = "reading"
  /\ LET st == ReadHandlerResult(content, chunkSize,
                  [offset |-> offset, data |-> data, delivered |-> delivered,
                   pc |-> streamPc])
     IN /\ offset' = st.offset
        /\ data' = st.data
        /\ delivered' = st.delivered
        /\ streamPc' = st.pc
  /\ UNCHANGED << content, chunkSize, driverVars, seqVars, knnVars, mergeVars,
                  tensorVars,
                  floatVars, analyzeVars, metaVars, subsetVars,
                  superviseVars, spriteVars >>

\* a DataSet on which no run is started, its indices left in order
DriverIdle ==
  /\ DriverInit
  /\ \A i \in DOMAIN shuffledDataIndices : shuffledDataIndices[i] = i - 1

\* streamParse(content, callback, chunkSize) has issued readChunk(0, chunkSize)
StreamInit ==
  /\ content \in Buffers
  /\ chunkSize \in ChunkSizes
  /\ offset = StreamStart.offset
  /\ data = StreamStart.data
  /\ delivered = StreamStart.delivered
  /\ streamPc = StreamStart.pc
  /\ DriverIdle
  /\ SeqIdle
  /\ KnnIdle
  /\ MergeIdle
  /\ TensorIdle
  /\ FloatIdle
  /\ AnalyzeIdle
  /\ MetaIdle
  /\ SubsetIdle
  /\ SuperviseIdle
  /\ SpriteIdle

StreamNext == ReadHandler

\* every FileReader read completes and calls onload
StreamSpec == StreamInit /\ [][StreamNext]_vars /\ WF_vars(ReadHandler)

(* ----------------------- claims about streamParse --------------------- *)
\* the delimiter-separated records of a buffer: the pieces between the
\* delimiters, the piece after the last delimiter only if it is not empty
Records(c) ==
  LET parts == Split(c, Delim)
  IN IF parts[Len(parts)] = << >> THEN SubSeq(parts, 1, Len(parts) - 1) ELSE parts

IsPrefix(a, b) == Len(a) <= Len(b) /\ a = SubSeq(b, 1, Len(a))

\* C5: the callback gets each record of the buffer exactly once, in
\* order, delimiter stripped: what was delivered is always a prefix of the
\* buffer's records and is all of them when the promise resolves.
C5_ExactlyOnceInOrder ==
  /\ IsPrefix(delivered, Records(content))
  /\ (streamPc = "resolved" => delivered = Records(content))

\* the outcome of reading the whole buffer as one chunk
OneChunk(c) == ReadHandlerResult(c, IF Len(c) = 0 THEN 1 ELSE Len(c), StreamStart)

\* C6: chunk-size independence: the record sequence delivered with any
\* chunk size equals the one delivered when the buffer is one chunk.
C6_ChunkSizeIndependent ==
  streamPc = "resolved" =>
    /\ OneChunk(content).pc = "resolved"
    /\ delivered = OneChunk(content).delivered

\* C7: streamParse terminates on every finite buffer, and a trailing
\* partial record is the last record delivered before the promise resolves.
C7_TerminatesWithTrailingRecord ==
  /\ <>(streamPc = "resolved")
  /\ [](streamPc = "resolved" /\ content # << >> /\ content[Len(content)] # Delim
          => /\ delivered # << >>
             /\ LET parts == Split(content, Delim)
                IN delivered[Len(delivered)] = parts[Len(parts)])

(* --------------------------- computeSequences ------------------------- *)
SeqPoints == 0..(NumSeqPoints - 1)
\* SEQUENCE_METADATA_ATTRS, in the order the code tries them
SEQUENCE_METADATA_ATTRS == << "__next__", "__seq_next__" >>
\* an attribute that is not in the metadata, the value '', and the result
\* null of getSequenceNextPointIndex; none of them is a link value
AbsentAttr == -2
EmptyAttr == -3
NullLink == -1
\* link values: the indices of the points and one index past the last point
LinkValues == 0..NumSeqPoints
\* the ways a data file writes the link v of a point: in __next__, in
\* __seq_next__, in __seq_next__ beside an empty __next__, or in __next__
\* beside a different __seq_next__
LinkStyles == {"next", "seq_next", "empty_next", "both"}
LinkMetadata(style, v) ==
  [a \in {"__next__", "__seq_next__"} |->
     IF a = "__next__"
       THEN (IF style \in {"next", "both"} THEN v
             ELSE IF style = "empty_next" THEN EmptyAttr ELSE AbsentAttr)
       ELSE (IF style \in {"seq_next", "empty_next"} THEN v
             ELSE IF style = "both" THEN (IF v = 0 THEN NumSeqPoints ELSE v - 1)
             ELSE AbsentAttr)]
NoLinkMetadata == [a \in {"__next__", "__seq_next__"} |-> AbsentAttr]
\* the metadata a point of a file written in one style may carry
PointMetadatas(style) ==
  { NoLinkMetadata } \cup { LinkMetadata(style, v) : v \in LinkValues }

\* getSequenceNextPointIndex(pointMetadata): the first attribute that is
\* present and not '', as a number, or null
RECURSIVE FirstSequenceAttr(_, _)
FirstSequenceAttr(m, n) ==
  IF n > Len(SEQUENCE_METADATA_ATTRS) THEN NullLink
  ELSE LET attr == SEQUENCE_METADATA_ATTRS[n]
       IN IF m[attr] # AbsentAttr /\ m[attr] # EmptyAttr
            THEN m[attr]
            ELSE FirstSequenceAttr(m, n + 1)

getSequenceNextPointIndex(m) == FirstSequenceAttr(m, 1)

\* points[index] is defined
PointExists(index) == index \in SeqPoints

\* indicesSeen[index] = 1 on an Int8Array: a write outside the array is dropped
MarkSeen(seen, index) ==
  IF index \in DOMAIN seen THEN [seen EXCEPT ![index] = 1] ELSE seen

\* pointIndices.push(index); a sequence that already repeats its points is
\* kept at 2 * NumSeqPoints entries
Push(seq, index) == IF Len(seq) < 2 * NumSeqPoints THEN Append(seq, index) ELSE seq

\* existingSequence.pointIndices.unshift(index) written with push
UnshiftAsPush(seq, index) == Append(seq, index)

\* existingSequence.pointIndices.unshift(index)
Unshift(seq, index) == << index >> \o seq

\* computeSequences(points) is entered by the DataSet constructor
SeqInit ==
  /\ \E style \in LinkStyles : pointMetadata \in [SeqPoints -> PointMetadatas(style)]
  /\ scanIndex = 0
  /\ indicesSeen = [p \in SeqPoints |-> 0]
  /\ indexToSequence = [p \in SeqPoints |-> 0]
  /\ sequences = << >>
  /\ newSequence = 0
  /\ currentIndex = -1
  /\ seqPc = "for"
  /\ DriverIdle
  /\ StreamIdle
  /\ KnnIdle
  /\ MergeIdle
  /\ TensorIdle
  /\ FloatIdle
  /\ AnalyzeIdle
  /\ MetaIdle
  /\ SubsetIdle
  /\ SuperviseIdle
  /\ SpriteIdle

\* one iteration of the for loop, up to its continue or to the while loop
ScanPoint ==
  /\ seqPc = "for"
  /\ scanIndex < NumSeqPoints
  /\ UNCHANGED << pointMetadata, driverVars, streamVars, knnVars, mergeVars,
                  tensorVars,
                  floatVars, analyzeVars, metaVars, subsetVars,
                  superviseVars, spriteVars >>
  /\ IF indicesSeen[scanIndex] = 1 THEN
       /\ scanIndex' = scanIndex + 1
       /\ UNCHANGED << indicesSeen, indexToSequence, sequences, newSequence,
                       currentIndex, seqPc >>
     ELSE
       LET next == getSequenceNextPointIndex(pointMetadata[scanIndex])
       IN /\ indicesSeen' = MarkSeen(indicesSeen, scanIndex)
          /\ IF next = NullLink THEN
               /\ scanIndex' = scanIndex + 1
               /\ UNCHANGED << indexToSequence, sequences, newSequence,
                               currentIndex, seqPc >>
             ELSE IF next \in SeqPoints /\ indexToSequence[next] # 0 THEN
               \* next in indexToSequence: unshift onto the existing sequence
               /\ sequences' = [sequences EXCEPT ![indexToSequence[next]] =
                                  Unshift(@, scanIndex)]
               /\ indexToSequence' =
                    [indexToSequence EXCEPT ![scanIndex] = indexToSequence[next]]
               /\ scanIndex' = scanIndex + 1
               /\ UNCHANGED << newSequence, currentIndex, seqPc >>
             ELSE
               /\ sequences' = Append(sequences, << >>)
               /\ newSequence' = Len(sequences) + 1
               /\ indexToSequence' =
                    [indexToSequence EXCEPT ![scanIndex] = Len(sequences) + 1]
               /\ currentIndex' = scanIndex
               /\ seqPc' = "while"
               /\ UNCHANGED scanIndex

\* one test of while (points[currentIndex]) and, if it passes, its body
FollowLink ==
  /\ seqPc = "while"
  /\ UNCHANGED << pointMetadata, indexToSequence, newSequence, driverVars,
                  streamVars, knnVars, mergeVars, tensorVars,
                  floatVars, analyzeVars, metaVars, subsetVars,
                  superviseVars, spriteVars >>
  /\ IF PointExists(currentIndex) THEN
       LET next == getSequenceNextPointIndex(pointMetadata[currentIndex])
       IN /\ sequences' = [sequences EXCEPT ![newSequence] = Push(@, currentIndex)]
          /\ IF next # NullLink
               THEN /\ indicesSeen' = MarkSeen(indicesSeen, next)
                    /\ currentIndex' = next
               ELSE /\ currentIndex' = -1
                    /\ UNCHANGED indicesSeen
          /\ UNCHANGED << scanIndex, seqPc >>
     ELSE
       /\ scanIndex' = scanIndex + 1
       /\ seqPc' = "for"
       /\ UNCHANGED << indicesSeen, sequences, currentIndex >>

\* the for loop ends: return sequences
ReturnSequences ==
  /\ seqPc = "for"
  /\ scanIndex >= NumSeqPoints
  /\ seqPc' = "done"
  /\ UNCHANGED << pointMetadata, scanIndex, indicesSeen, indexToSequence,
                  sequences, newSequence, currentIndex, driverVars, streamVars,
                  knnVars, mergeVars, tensorVars,
                  floatVars, analyzeVars, metaVars, subsetVars,
                  superviseVars, spriteVars >>

SeqNext == ScanPoint \/ FollowLink \/ ReturnSequences

\* computeSequences is synchronous code: it keeps running
SeqSpec == SeqInit /\ [][SeqNext]_vars /\ WF_vars(SeqNext)

(* --------------------- claims about computeSequences ------------------ *)
LinkOf(p) == getSequenceNextPointIndex(pointMetadata[p])
HasLink(p) == LinkOf(p) # NullLink
NoDuplicates(seq) == \A a, b \in DOMAIN seq : a # b => seq[a] # seq[b]

\* C8: computeSequences terminates for every link structure, cycles
\* included, and while a sequence is built no point is traversed again.
C8_TerminatesOnCycles ==
  /\ <>(seqPc = "done")
  /\ [](\A n \in DOMAIN sequences : NoDuplicates(sequences[n]))

\* following the links from p ends within n steps
RECURSIVE ChainEnds(_, _)
ChainEnds(p, n) ==
  IF ~PointExists(p) THEN TRUE
  ELSE IF ~HasLink(p) THEN TRUE
  ELSE IF n = 0 THEN FALSE
  ELSE ChainEnds(LinkOf(p), n - 1)

Acyclic == \A p \in SeqPoints : ChainEnds(p, NumSeqPoints)
AtMostOneLinkInto ==
  \A t \in SeqPoints :
    Cardinality({ p \in SeqPoints : HasLink(p) /\ LinkOf(p) = t }) <= 1

Occurrences(p) ==
  { << n, a >> \in (DOMAIN sequences) \X (1..(2 * NumSeqPoints)) :
      a \in DOMAIN sequences[n] /\ sequences[n][a] = p }

\* C9: for acyclic links with at most one link into each point, the result
\* holds every point in at most one sequence and at most once in it.
C9_NoSequenceBuiltTwice ==
  (seqPc = "done" /\ Acyclic /\ AtMostOneLinkInto) =>
    \A p \in SeqPoints : Cardinality(Occurrences(p)) <= 1

FollowsLinks(seq) ==
  \A a \in 1..(Len(seq) - 1) : HasLink(seq[a]) /\ LinkOf(seq[a]) = seq[a + 1]
RunsToEnd(seq) ==
  seq # << >> /\ (HasLink(seq[Len(seq)]) => ~PointExists(LinkOf(seq[Len(seq)])))
InSomeSequence(p) == Occurrences(p) # {}

\* C10 as stated, for every link structure: every returned sequence
\* follows the links and runs to the end of its chain, every point linking
\* to an existing point is in a sequence, and a point without a link that
\* no link points to is in none.
C10_SequencesFollowLinks ==
  seqPc = "done" =>
    /\ \A n \in DOMAIN sequences : FollowsLinks(sequences[n]) /\ RunsToEnd(sequences[n])
    /\ \A p \in SeqPoints :
         (HasLink(p) /\ PointExists(LinkOf(p))) => InSomeSequence(p)
    /\ \A p \in SeqPoints :
         (~HasLink(p) /\ \A q \in SeqPoints : ~(HasLink(q) /\ LinkOf(q) = p))
           => ~InSomeSequence(p)

\* C10 (amended): when each point is the target of at most one link, every
\* returned sequence follows the links and runs to the end of its chain,
\* every point linking to an existing point is in a sequence, and a point
\* without a link that no link points to is in none.
C10_FollowLinksWithoutFanIn == AtMostOneLinkInto => C10_SequencesFollowLinks

\* a chain of three points found tail first, so that its head was put in
\* front by unshift, next to a point that stays unattached
C10_Witness ==
  /\ seqPc = "done"
  /\ AtMostOneLinkInto
  /\ \E n \in DOMAIN sequences :
       /\ Len(sequences[n]) >= 3
       /\ sequences[n][1] > sequences[n][2]
  /\ \E p \in SeqPoints : ~InSomeSequence(p)

(* -------------------- findKNN and findKNNGPUCosine -------------------- *)
\* largest number of points handed to a neighbor search
MaxKnnPoints == 3
\* largest k handed to a neighbor search
MaxK == 2
\* the dot product of a unit vector with itself, in the units in which the
\* model counts dot products (1.0 in the source)
UnitDot == 2
\* the height of a block of the accelerated search; 256 in the source,
\* scaled so that a search over a few points takes several blocks
OPTIMAL_GPU_BLOCK_SIZE == 2

KnnPointSet(n) == 0..(n - 1)
KnnPairs(n) == { pr \in KnnPointSet(n) \X KnnPointSet(n) : pr[1] < pr[2] }
Max(a, b) == IF a > b THEN a ELSE b

\* dot(a, b) of the unit vectors of points i and j
Dot(i, j) == IF i = j THEN UnitDot ELSE dotProd[<< Min(i, j), Max(i, j) >>]

\* cosDistNorm(a, b) = 1 - dot(a, b)
cosDistNorm(i, j) == UnitDot - Dot(i, j)

\* Number.MAX_VALUE: larger than every distance
NUMBER_MAX_VALUE == 2 * UnitDot + 1

\* KMin<NearestEntry>: the retained items in ascending order of key, items
\* of equal key in the order they were offered
KMinNew == << >>
KMinGetSize(h) == Len(h)
\* no bound yet (null) on an empty structure
KMinNoKey == 0
KMinGetLargestKey(h) == IF h = << >> THEN KMinNoKey ELSE h[Len(h)].key
KMinInsert(h, item) ==
  LET n == Cardinality({ a \in DOMAIN h : h[a].key <= item.key })
  IN SubSeq(h, 1, n) \o << item >> \o SubSeq(h, n + 1, Len(h))
\* add(key, value): below capacity the item is inserted; at capacity a key
\* not smaller than the largest retained key is rejected, any other evicts
\* the largest
KMinAdd(h, k, key, value) ==
  LET item == [key |-> key, value |-> value]
  IN IF Len(h) < k THEN KMinInsert(h, item)
     ELSE IF key < KMinGetLargestKey(h)
       THEN KMinInsert(SubSeq(h, 1, Len(h) - 1), item)
       ELSE h
KMinGetMinKItems(h) == [n \in DOMAIN h |-> h[n].value]

NearestEntry(index, dist) == [index |-> index, dist |-> dist]

\* ---- findKNN (knn.ts 135-173)
\* kMin[i] = new KMin(k) for every point; kMin[p + 1] is the structure of
\* point p
NewKMins(n) == [p \in 1..n |-> KMinNew]

\* limitI / limitJ with the joining operator miswritten as Math.min
MinLimit(a, b) == Min(a, b)

\* const limit = Math.max(limitI, limitJ)
JointLimit(limitI, limitJ) == Max(limitI, limitJ)

\* kMinA.getSize() === k ? kMinA.getLargestKey() || Number.MAX_VALUE
\*                        : Number.MAX_VALUE
LimitOf(h, k) ==
  IF KMinGetSize(h) = k
    THEN (IF KMinGetLargestKey(h) # 0 THEN KMinGetLargestKey(h)
          ELSE NUMBER_MAX_VALUE)
    ELSE NUMBER_MAX_VALUE

\* the values dist(a, b, limit) may return: the distance, or a negative
\* number when the function exits early because the distance is over limit
DistReturns(i, j, limit, exitsEarly) ==
  IF exitsEarly /\ cosDistNorm(i, j) > limit
    THEN { cosDistNorm(i, j), -1 }
    ELSE { cosDistNorm(i, j) }

\* if (dist2ItoJ >= 0) { kMinA.add(...); kMinB.add(...); }
OfferPair(hs, k, i, j, d) ==
  IF d >= 0
    THEN [hs EXCEPT ![i + 1] = KMinAdd(@, k, d, NearestEntry(j, d)),
                    ![j + 1] = KMinAdd(@, k, d, NearestEntry(i, d))]
    ELSE hs

\* findKNN(dataPoints, k, accessor, dist) queues its task
FindKNN ==
  /\ knnPc = "call"
  /\ knnCall = "findKNN"
  /\ kMin' = NewKMins(knnN)
  /\ cpuI' = 0
  /\ cpuJ' = 1
  /\ knnPc' = "cpu"
  /\ UNCHANGED << knnCall, knnN, knnK, dotProd, distExitsEarly, abortedPairs,
                  gpuNearest, gpuOffset, piece, gpuFailed, blocksAfterFailure,
                  knnResolved >>
  /\ UNCHANGED << driverVars, streamVars, seqVars, mergeVars, tensorVars,
                  floatVars, analyzeVars, metaVars, subsetVars,
                  superviseVars, spriteVars >>

\* one pass of the inner loop for the pair (cpuI, cpuJ), and the loop
\* headers up to the next pair
CpuPair ==
  /\ knnPc = "cpu"
  /\ cpuJ < knnN
  /\ LET limit == JointLimit(LimitOf(kMin[cpuI + 1], knnK),
                             LimitOf(kMin[cpuJ + 1], knnK))
     IN \E dist2ItoJ \in DistReturns(cpuI, cpuJ, limit, distExitsEarly) :
          /\ kMin' = OfferPair(kMin, knnK, cpuI, cpuJ, dist2ItoJ)
          /\ abortedPairs' = IF dist2ItoJ < 0 THEN abortedPairs + 1
                             ELSE abortedPairs
  /\ IF cpuJ + 1 < knnN
       THEN cpuJ' = cpuJ + 1 /\ cpuI' = cpuI
       ELSE cpuI' = cpuI + 1 /\ cpuJ' = cpuI + 2
  /\ UNCHANGED << knnCall, knnN, knnK, dotProd, distExitsEarly, gpuNearest,
                  gpuOffset, piece, gpuFailed, blocksAfterFailure, knnPc,
                  knnResolved >>
  /\ UNCHANGED << driverVars, streamVars, seqVars, mergeVars, tensorVars,
                  floatVars, analyzeVars, metaVars, subsetVars,
                  superviseVars, spriteVars >>

\* the loops are over: nearest[i] = kMin[i].getMinKItems(), return nearest;
\* the promise of findKNN resolves, and in the fallback of findKNNGPUCosine
\* its continuation calls resolve(nearestVal)
CpuReturn ==
  /\ knnPc = "cpu"
  /\ cpuJ >= knnN
  /\ knnResolved' = Append(knnResolved,
        [from |-> "findKNN",
         value |-> [p \in 1..knnN |-> KMinGetMinKItems(kMin[p])]])
  /\ knnPc' = "resolved"
  /\ UNCHANGED << knnCall, knnN, knnK, dotProd, distExitsEarly, kMin, cpuI,
                  cpuJ, abortedPairs, gpuNearest, gpuOffset, piece, gpuFailed,
                  blocksAfterFailure >>
  /\ UNCHANGED << driverVars, streamVars, seqVars, mergeVars, tensorVars,
                  floatVars, analyzeVars, metaVars, subsetVars,
                  superviseVars, spriteVars >>

\* ---- findKNNGPUCosine (knn.ts 45-121)
\* a count of pieces that is one more than the rows need
NumPiecesPlusOne(n) ==
  (n + OPTIMAL_GPU_BLOCK_SIZE - 1) \div OPTIMAL_GPU_BLOCK_SIZE + 1

\* Math.ceil(N / OPTIMAL_GPU_BLOCK_SIZE)
NumPieces(n) == (n + OPTIMAL_GPU_BLOCK_SIZE - 1) \div OPTIMAL_GPU_BLOCK_SIZE
\* the block height without the remainder rows
BlockHeightNoRemainder(n, pc) == n \div NumPieces(n)

\* const B = piece < modulo ? M + 1 : M
BlockHeight(n, pc) ==
  LET M == n \div NumPieces(n)
      modulo == n % NumPieces(n)
  IN IF pc < modulo THEN M + 1 ELSE M

\* the transferred matrix read column-major, entry [j, i] at i * N + j
PartialColumnMajor(n, off, B) ==
  [x \in 0..(n * B - 1) |-> Dot(x % n, off + (x \div n))]

\* result.transfer() of sgemm(1, bigMatrix, partialMatrix): the N x B
\* matrix of dot products, row-major, entry [j, i] at j * B + i
Partial(n, off, B) ==
  [x \in 0..(n * B - 1) |-> Dot(x \div B, off + (x % B))]

\* the list of one row of a block: every j but iReal is offered in order
RECURSIVE FoldRow(_, _, _, _, _, _, _)
FoldRow(h, k, partial, B, i, iReal, j) ==
  IF j >= knnN THEN h
  ELSE IF j = iReal THEN FoldRow(h, k, partial, B, i, iReal, j + 1)
  ELSE LET cosDist == UnitDot - partial[j * B + i]
       IN FoldRow(KMinAdd(h, k, cosDist, NearestEntry(j, cosDist)),
                  k, partial, B, i, iReal, j + 1)

UnsetList == [set |-> FALSE, items |-> << >>]

\* lines 88-99: nearest[iReal] = kMin.getMinKItems() for the rows of a block
WriteBlock(nr, k, partial, B, off) ==
  [p \in DOMAIN nr |->
     IF p - 1 >= off /\ p - 1 < off + B
       THEN [set |-> TRUE,
             items |-> KMinGetMinKItems(
                         FoldRow(KMinNew, k, partial, B, p - 1 - off, p - 1, 0))]
       ELSE nr[p]]

\* findKNNGPUCosine(dataPoints, k, accessor) up to the return of the
\* promise: the point matrix is created on the accelerator, which may fail
FindKNNGPUCosine ==
  /\ knnPc = "call"
  /\ knnCall = "findKNNGPUCosine"
  /\ \E created \in BOOLEAN :
       IF created
         THEN /\ gpuNearest' = [p \in 1..knnN |-> UnsetList]
              /\ knnPc' = "task"
              /\ UNCHANGED gpuFailed
         ELSE /\ gpuFailed' = TRUE
              /\ knnPc' = "threw"
              /\ UNCHANGED gpuNearest
  /\ gpuOffset' = 0
  /\ piece' = 0
  /\ UNCHANGED << knnCall, knnN, knnK, dotProd, distExitsEarly, kMin, cpuI,
                  cpuJ, abortedPairs, blocksAfterFailure, knnResolved >>
  /\ UNCHANGED << driverVars, streamVars, seqVars, mergeVars, tensorVars,
                  floatVars, analyzeVars, metaVars, subsetVars,
                  superviseVars, spriteVars >>

\* the task of one block: the block matrix, the multiplication or the
\* transfer may fail, before anything is written
GpuTask ==
  /\ knnPc = "task"
  /\ \E computed \in BOOLEAN :
       IF computed
         THEN LET B == BlockHeight(knnN, piece)
              IN /\ gpuNearest' = WriteBlock(gpuNearest, knnK,
                                     Partial(knnN, gpuOffset, B), B, gpuOffset)
                 /\ gpuOffset' = gpuOffset + B
                 /\ piece' = piece + 1
                 /\ blocksAfterFailure' =
                      IF gpuFailed THEN blocksAfterFailure + 1
                      ELSE blocksAfterFailure
                 /\ knnPc' = "fulfilled"
                 /\ UNCHANGED gpuFailed
         ELSE /\ gpuFailed' = TRUE
              /\ knnPc' = "rejected"
              /\ UNCHANGED << gpuNearest, gpuOffset, piece, blocksAfterFailure >>
  /\ UNCHANGED << knnCall, knnN, knnK, dotProd, distExitsEarly, kMin, cpuI,
                  cpuJ, abortedPairs, knnResolved >>
  /\ UNCHANGED << driverVars, streamVars, seqVars, mergeVars, tensorVars,
                  floatVars, analyzeVars, metaVars, subsetVars,
                  superviseVars, spriteVars >>

\* the continuation of a block that succeeded: the next block, or
\* resolve(nearest)
GpuThen ==
  /\ knnPc = "fulfilled"
  /\ IF piece < NumPieces(knnN)
       THEN /\ knnPc' = "task"
            /\ UNCHANGED knnResolved
       ELSE /\ knnResolved' = Append(knnResolved,
                 [from |-> "findKNNGPUCosine",
                  value |-> [p \in DOMAIN gpuNearest |-> gpuNearest[p].items]])
            /\ knnPc' = "resolved"
  /\ UNCHANGED << knnCall, knnN, knnK, dotProd, distExitsEarly, kMin, cpuI,
                  cpuJ, abortedPairs, gpuNearest, gpuOffset, piece, gpuFailed,
                  blocksAfterFailure >>
  /\ UNCHANGED << driverVars, streamVars, seqVars, mergeVars, tensorVars,
                  floatVars, analyzeVars, metaVars, subsetVars,
                  superviseVars, spriteVars >>

\* a failed block is skipped and the next block is computed
GpuCatchSkipsBlock ==
  /\ knnPc = "rejected"
  /\ piece' = piece + 1
  /\ gpuOffset' = gpuOffset + BlockHeight(knnN, piece)
  /\ knnPc' = "fulfilled"
  /\ UNCHANGED << knnCall, knnN, knnK, dotProd, distExitsEarly, kMin, cpuI,
                  cpuJ, abortedPairs, gpuNearest, gpuFailed,
                  blocksAfterFailure, knnResolved >>
  /\ UNCHANGED << driverVars, streamVars, seqVars, mergeVars, tensorVars,
                  floatVars, analyzeVars, metaVars, subsetVars,
                  superviseVars, spriteVars >>

\* the continuation of a block that failed: findKNN over all the points
\* with a dist that ignores the limit
GpuCatch ==
  /\ knnPc = "rejected"
  /\ distExitsEarly' = FALSE
  /\ kMin' = NewKMins(knnN)
  /\ cpuI' = 0
  /\ cpuJ' = 1
  /\ knnPc' = "cpu"
  /\ UNCHANGED << knnCall, knnN, knnK, dotProd, abortedPairs, gpuNearest,
                  gpuOffset, piece, gpuFailed, blocksAfterFailure, knnResolved >>
  /\ UNCHANGED << driverVars, streamVars, seqVars, mergeVars, tensorVars,
                  floatVars, analyzeVars, metaVars, subsetVars,
                  superviseVars, spriteVars >>

\* a neighbor search is about to be called: over 1..MaxKnnPoints points
\* with unit vectors, for k in 1..MaxK; findKNN gets a dist argument that
\* exits early or one that does not, findKNNGPUCosine takes none
KnnInit ==
  /\ knnCall \in {"findKNN", "findKNNGPUCosine"}
  /\ knnN \in 1..MaxKnnPoints
  /\ knnK \in 1..MaxK
  /\ dotProd \in [KnnPairs(knnN) -> 0..UnitDot]
  /\ distExitsEarly \in (IF knnCall = "findKNN" THEN BOOLEAN ELSE {FALSE})
  /\ kMin = << >>
  /\ cpuI = 0
  /\ cpuJ = 0
  /\ abortedPairs = 0
  /\ gpuNearest = << >>
  /\ gpuOffset = 0
  /\ piece = 0
  /\ gpuFailed = FALSE
  /\ blocksAfterFailure = 0
  /\ knnPc = "call"
  /\ knnResolved = << >>
  /\ DriverIdle
  /\ StreamIdle
  /\ SeqIdle
  /\ MergeIdle
  /\ TensorIdle
  /\ FloatIdle
  /\ AnalyzeIdle
  /\ MetaIdle
  /\ SubsetIdle
  /\ SuperviseIdle
  /\ SpriteIdle

KnnNext ==
  \/ FindKNN
  \/ CpuPair
  \/ CpuReturn
  \/ FindKNNGPUCosine
  \/ GpuTask
  \/ GpuThen
  \/ GpuCatch

KnnSpec == KnnInit /\ [][KnnNext]_vars

\* findKNN with the dist argument of data.ts:309, which ignores the limit:
\* the pair loops of lines 147-165 run to their end
RECURSIVE FoldPairs(_, _, _, _)
FoldPairs(hs, k, i, j) ==
  IF j >= knnN THEN hs
  ELSE LET offered == OfferPair(hs, k, i, j, cosDistNorm(i, j))
       IN IF j + 1 < knnN THEN FoldPairs(offered, k, i, j + 1)
          ELSE FoldPairs(offered, k, i + 1, i + 2)

FindKNNCosDistNorm ==
  [p \in 1..knnN |->
     KMinGetMinKItems(FoldPairs(NewKMins(knnN), knnK, 0, 1)[p])]

(* --------------------- claims about the neighbor search --------------- *)
KnnResolved == knnPc = "resolved"
KnnValue == knnResolved[Len(knnResolved)].value
\* a block step of the accelerated search has failed
BlockStepFailed == knnCall = "findKNNGPUCosine" /\ gpuFailed /\ knnPc # "threw"

\* C11: after a block step of findKNNGPUCosine failed no further block is
\* processed, resolve is called at most once, and the promise resolves
\* with the array findKNN returned, which is exactly what findKNN computes
\* for the whole input; no list of an earlier block is in it.
C11_FallbackDiscardsBlocks ==
  BlockStepFailed =>
    /\ blocksAfterFailure = 0
    /\ Len(knnResolved) <= 1
    /\ (KnnResolved =>
          /\ Len(knnResolved) = 1
          /\ knnResolved[1].from = "findKNN"
          /\ knnResolved[1].value = FindKNNCosDistNorm)

\* the second block failed after the first had written its lists, and the
\* promise has resolved
C11_Witness ==
  /\ BlockStepFailed
  /\ KnnResolved
  /\ piece >= 1
  /\ \E p \in DOMAIN gpuNearest : gpuNearest[p].set /\ gpuNearest[p].items # << >>

\* C12: a failure of the accelerated path at any point is recovered: the
\* call does not throw, and when it is over its promise is resolved with
\* the result of findKNN.
C12_FailureNeverSurfaced ==
  (knnCall = "findKNNGPUCosine" /\ gpuFailed) =>
    /\ knnPc # "threw"
    /\ (knnPc \in {"resolved", "threw"} =>
          /\ knnResolved # << >>
          /\ KnnValue = FindKNNCosDistNorm)

\* the exhaustive scan of all other points for point i, without early
\* exit: the min(k, N-1) nearest, ascending by distance, then by index
KnnOthers(i) == KnnPointSet(knnN) \ {i}
Nearer(i, a, b) ==
  \/ cosDistNorm(i, a) < cosDistNorm(i, b)
  \/ cosDistNorm(i, a) = cosDistNorm(i, b) /\ a < b
ExhaustiveScan(i) ==
  [n \in 1..Min(knnK, knnN - 1) |->
     LET a == CHOOSE a \in KnnOthers(i) :
                Cardinality({ b \in KnnOthers(i) : Nearer(i, b, a) }) = n - 1
     IN NearestEntry(a, cosDistNorm(i, a))]
Dists(list) == [n \in DOMAIN list |-> list[n].dist]

\* C13: with a dist that returns a negative value only when the distance
\* is over the limit, every list findKNN returns holds the same k smallest
\* distances as the exhaustive scan without early exit.
C13_SymmetricPruningExact ==
  (knnCall = "findKNN" /\ KnnResolved) =>
    \A p \in 1..knnN : Dists(KnnValue[p]) = Dists(ExhaustiveScan(p - 1))

\* findKNN has returned after its dist exited early on some pair
C13_Witness ==
  /\ knnCall = "findKNN"
  /\ KnnResolved
  /\ abortedPairs > 0

IndexSet(list) == { list[n].index : n \in DOMAIN list }

\* C14: both strategies return N lists; list i has at most k entries
\* (min(k, N-1) when no distance was aborted), does not contain i, holds no
\* index twice and is ordered by non-decreasing dist.
C14_NeighborListShape ==
  KnnResolved =>
    /\ Len(KnnValue) = knnN
    /\ \A p \in 1..knnN :
         LET list == KnnValue[p]
         IN /\ Len(list) <= knnK
            /\ (abortedPairs = 0 => Len(list) = Min(knnK, knnN - 1))
            /\ (p - 1) \notin IndexSet(list)
            /\ Cardinality(IndexSet(list)) = Len(list)
            /\ \A n \in 1..(Len(list) - 1) : list[n].dist <= list[n + 1].dist

\* the accelerated search has resolved over three points in two blocks
C14_Witness ==
  /\ knnCall = "findKNNGPUCosine"
  /\ KnnResolved
  /\ ~gpuFailed
  /\ knnN = MaxKnnPoints
  /\ knnK >= 2
  /\ piece >= 2

GpuSucceeding ==
  /\ knnCall = "findKNNGPUCosine"
  /\ ~gpuFailed
  /\ knnPc \in {"task", "fulfilled", "resolved"}
\* the rows (counted from 1) that have received a neighbor list
RowsWithList == { p \in DOMAIN gpuNearest : gpuNearest[p].set }
\* the number of blocks the claim states: the least c with c * 256 >= N
\* (256 stands for OPTIMAL_GPU_BLOCK_SIZE)
CeilBlocks ==
  CHOOSE c \in 1..knnN :
    /\ c * OPTIMAL_GPU_BLOCK_SIZE >= knnN
    /\ (c - 1) * OPTIMAL_GPU_BLOCK_SIZE < knnN

\* C32: for every N >= 1 findKNNGPUCosine cuts the rows 0..N-1 into
\* ceil(N / OPTIMAL_GPU_BLOCK_SIZE) consecutive blocks, each of 1 to
\* OPTIMAL_GPU_BLOCK_SIZE rows, of sizes that differ by at most 1 and sum
\* to N; every row is in exactly one block and, when no block fails, gets
\* exactly one neighbor list, made of the distances of its own row.
C32_ConsecutiveRowBlocks ==
  [][/\ (GpuSucceeding /\ GpuSucceeding' /\ piece' = piece + 1) =>
          LET B == gpuOffset' - gpuOffset
          IN /\ piece < CeilBlocks
             /\ B >= 1 /\ B <= OPTIMAL_GPU_BLOCK_SIZE
             /\ B \in { knnN \div CeilBlocks, knnN \div CeilBlocks + 1 }
             /\ gpuOffset' <= knnN
             /\ RowsWithList = 1..gpuOffset
             /\ RowsWithList' = 1..gpuOffset'
             /\ \A p \in 1..gpuOffset : gpuNearest'[p] = gpuNearest[p]
             /\ \A p \in (gpuOffset + 1)..gpuOffset' :
                  LET list == gpuNearest'[p].items
                  IN /\ Len(list) = Min(knnK, knnN - 1)
                     /\ \A n \in DOMAIN list :
                          /\ list[n].index \in KnnPointSet(knnN) \ { p - 1 }
                          /\ list[n].dist = UnitDot - Dot(list[n].index, p - 1)
     /\ (GpuSucceeding /\ GpuSucceeding' /\ knnPc # "resolved"
           /\ knnPc' = "resolved") =>
          /\ piece = CeilBlocks
          /\ gpuOffset = knnN
          /\ RowsWithList = 1..knnN
          /\ UNCHANGED gpuNearest]_vars

\* three rows were cut into a block of two rows and a block of one row,
\* and the search has resolved with a list for each of them
C32_Witness ==
  /\ GpuSucceeding
  /\ knnPc = "resolved"
  /\ knnN = 3
  /\ piece = 2
  /\ gpuOffset = 3
  /\ RowsWithList = 1..3
  /\ \E pr \in KnnPairs(knnN), qr \in KnnPairs(knnN) : dotProd[pr] # dotProd[qr]

(* ---------------------------- mergeMetadata --------------------------- *)
\* largest number of points of a DataSet that metadata is merged into
MaxMergePoints == 2
\* number of mergeMetadata calls explored
MaxMerges == 2
\* largest number of metadata columns (entries of stats)
MaxColumns == 2

\* metadata.pointsInfo / metadata.stats is missing
NoArray == -1
\* the argument null
NullInfo == [call |-> -1]
\* the SpriteAndMetadataInfo objects the n-th call may pass: pointsInfo and
\* stats are given by their lengths, from those short of the points by more
\* than a header row to those over by more than a header row
MetadataArgs(n) ==
  { [call |-> n, pointsInfo |-> r, stats |-> c] :
      r \in NoArray..(MaxMergePoints + 2), c \in NoArray..MaxColumns }
\* the PointMetadata object pointsInfo[i] of the n-th call; << 0, i >> is
\* the metadata point i was constructed with
Record(n, i) == << n, i >>

\* metadata.stats.length === 1 tested against points.length - 1
SingleColumnHeaderMinus(md, numPoints) ==
  md.stats # NoArray /\ md.stats = 1 /\ numPoints - 1 = md.pointsInfo

\* metadata.stats && metadata.stats.length === 1 &&
\*   this.points.length + 1 === metadata.pointsInfo.length
SingleColumnHeader(md, numPoints) ==
  md.stats # NoArray /\ md.stats = 1 /\ numPoints + 1 = md.pointsInfo

\* metadata.stats && metadata.stats.length > 1 &&
\*   this.points.length - 1 === metadata.pointsInfo.length
MissingHeader(md, numPoints) ==
  md.stats # NoArray /\ md.stats > 1 /\ numPoints - 1 = md.pointsInfo

\* metadata.pointsInfo.slice(0, points.length).forEach((m, i) =>
\*   points[i].metadata = m)
ApplyRecords(pm, md) ==
  [p \in DOMAIN pm |->
     IF p <= Min(md.pointsInfo, Len(pm)) THEN Record(md.call, p - 1) ELSE pm[p]]

\* mergeMetadata(metadata)
MergeMetadata(md) ==
  /\ numMerges < MaxMerges
  /\ numMerges' = numMerges + 1
  /\ mergeArg' = md
  /\ IF md = NullInfo THEN
       \* this.spriteAndMetadataInfo = null; metadata.pointsInfo throws
       /\ spriteAndMetadataInfo' = md
       /\ mergeReturned' = "threw"
       /\ UNCHANGED pointsMetadata
     ELSE IF /\ md.pointsInfo # NoArray
             /\ md.pointsInfo # Len(pointsMetadata)
             /\ \/ SingleColumnHeader(md, Len(pointsMetadata))
                \/ MissingHeader(md, Len(pointsMetadata)) THEN
       /\ mergeReturned' = "false"
       /\ UNCHANGED << pointsMetadata, spriteAndMetadataInfo >>
     ELSE
       /\ spriteAndMetadataInfo' = md
       /\ IF md.pointsInfo # NoArray
            THEN /\ pointsMetadata' = ApplyRecords(pointsMetadata, md)
                 /\ mergeReturned' = "true"
            ELSE /\ mergeReturned' = "false"
                 /\ UNCHANGED pointsMetadata
  /\ UNCHANGED << driverVars, streamVars, seqVars, knnVars, tensorVars,
                  floatVars, analyzeVars, metaVars, subsetVars,
                  superviseVars, spriteVars >>

\* a DataSet of up to MaxMergePoints points has been constructed
MergeInit ==
  /\ \E n \in 0..MaxMergePoints : pointsMetadata = [p \in 1..n |-> Record(0, p - 1)]
  /\ spriteAndMetadataInfo = Undefined
  /\ mergeArg = Undefined
  /\ mergeReturned = "none"
  /\ numMerges = 0
  /\ DriverIdle
  /\ StreamIdle
  /\ SeqIdle
  /\ KnnIdle
  /\ TensorIdle
  /\ FloatIdle
  /\ AnalyzeIdle
  /\ MetaIdle
  /\ SubsetIdle
  /\ SuperviseIdle
  /\ SpriteIdle

MergeNext ==
  \E md \in MetadataArgs(numMerges + 1) \cup { NullInfo } : MergeMetadata(md)

MergeSpec == MergeInit /\ [][MergeNext]_vars

(* --------------------- claims about mergeMetadata --------------------- *)
\* the step is a call of mergeMetadata with a metadata object that has
\* pointsInfo
MergeCalled ==
  /\ numMerges' = numMerges + 1
  /\ mergeArg' # NullInfo
  /\ mergeArg'.pointsInfo # NoArray

MergeRejected ==
  /\ mergeReturned' = "false"
  /\ pointsMetadata' = pointsMetadata
  /\ spriteAndMetadataInfo' = spriteAndMetadataInfo

\* C16: whenever the number of metadata records differs from the number
\* of points, mergeMetadata returns false and leaves every point's metadata
\* and spriteAndMetadataInfo untouched.
C16_RejectsEveryMismatch ==
  [][(MergeCalled /\ mergeArg'.pointsInfo # Len(pointsMetadata))
       => MergeRejected]_vars

\* C17: mergeMetadata returns false and changes neither the points'
\* metadata nor spriteAndMetadataInfo when the metadata has 1 column and
\* N+1 records, and when it has more than 1 column and N-1 records.
C17_HeaderMismatchRejected ==
  [][(/\ MergeCalled
      /\ \/ mergeArg'.stats = 1 /\ mergeArg'.pointsInfo = Len(pointsMetadata) + 1
         \/ mergeArg'.stats > 1 /\ mergeArg'.pointsInfo = Len(pointsMetadata) - 1)
       => MergeRejected]_vars

\* after a merge that succeeded, a single-column metadata with one record
\* too many was rejected and the first merge is still in place
C17_Witness ==
  /\ numMerges = 2
  /\ mergeReturned = "false"
  /\ mergeArg.stats = 1
  /\ mergeArg.pointsInfo = Len(pointsMetadata) + 1
  /\ spriteAndMetadataInfo.call = 1
  /\ pointsMetadata # << >>
  /\ \A p \in DOMAIN pointsMetadata : pointsMetadata[p] = Record(1, p - 1)

\* C33: whenever mergeMetadata returns false, for any argument including
\* a metadata object without pointsInfo, spriteAndMetadataInfo and every
\* point's metadata keep the values they had before the call.
C33_FalseLeavesDataSetUnchanged ==
  [][(numMerges' = numMerges + 1 /\ mergeReturned' = "false")
       => /\ pointsMetadata' = pointsMetadata
          /\ spriteAndMetadataInfo' = spriteAndMetadataInfo]_vars

(* -------------------- parseTensors and parseRawTensors ---------------- *)
\* largest number of rows of a tensor file
MaxRows == 2
\* largest number of fields of a row
MaxFields == 3
\* largest length of a Float32Array and largest dim argument
MaxFloats == 5
MaxFloatDim == 3

\* the default valueDelim of parseTensors, '\t'
Tab == 9
\* the value of numDim before the first row is parsed
UndefinedDim == -1
\* the number NaN
NaN == -1

\* the fields of a tensor file: the number 1 and the word a
TensorFields == { << 49 >>, << 97 >> }
\* a row is blank or has 1..MaxFields fields
TensorRowSet == { << >> } \cup UNION { [1..n -> TensorFields] : n \in 1..MaxFields }

RECURSIVE Join(_, _)
Join(parts, sep) ==
  IF parts = << >> THEN << >>
  ELSE IF Len(parts) = 1 THEN parts[1]
  ELSE parts[1] \o << sep >> \o Join(Tail(parts), sep)

\* the bytes of a file of the given rows, with or without a delimiter
\* after the last row
FileOf(rows, newlineAtEnd) ==
  Join([r \in DOMAIN rows |-> Join(rows[r], Tab)], Delim)
    \o (IF newlineAtEnd THEN << Delim >> ELSE << >>)
TensorFiles ==
  { FileOf(rows, nl) :
      rows \in UNION { [1..n -> TensorRowSet] : n \in 0..MaxRows },
      nl \in BOOLEAN }
\* the chunk size of parseTensors is the default of streamParse, 1000000:
\* a file is longer than a chunk (3 bytes here) or fits into one
TensorChunkSizes == { 3, 2 * MaxFields * MaxRows + 1 }

\* String.prototype.trim on a line: tabs, carriage returns and blanks at
\* both ends are removed
IsWhitespace(b) == b \in { Tab, Delim, 13, 32 }
RECURSIVE Trim(_)
Trim(line) ==
  IF line = << >> THEN line
  ELSE IF IsWhitespace(line[1]) THEN Trim(Tail(line))
  ELSE IF IsWhitespace(line[Len(line)]) THEN Trim(SubSeq(line, 1, Len(line) - 1))
  ELSE line

\* Number(field): the empty string is 0, a string of decimal digits its
\* value, every other field NaN
RECURSIVE Number(_)
Number(field) ==
  IF field = << >> THEN 0
  ELSE IF field[Len(field)] \notin 48..57 THEN NaN
  ELSE LET front == Number(SubSeq(field, 1, Len(field) - 1))
       IN IF front = NaN THEN NaN ELSE 10 * front + (field[Len(field)] - 48)
\* isNaN(field)
isNaN(field) == Number(field) = NaN
Numbers(fields) == [n \in DOMAIN fields |-> Number(fields[n])]

\* the count test written as "the field count disagrees with numDim"
CountDisagrees(dim, rowLength) == dim # UndefinedDim /\ dim # rowLength

\* numDim === row.length - 1
CountIsOneMore(dim, rowLength) == dim = rowLength - 1

\* the degenerate test written as numDim < 1
DimensionsFailBelowOne(dim, vectorLength) == dim # vectorLength \/ dim < 1

\* numDim !== dataPoint.vector.length, numDim <= 1: the row throws
DimensionsFail(dim, vectorLength) == dim # vectorLength \/ dim <= 1

\* the field dim of new DataSet(points): [points.length,
\* points[0].vector.length]; on an empty list points[0] is undefined and
\* the constructor throws a TypeError
ConstructorThrew == << -1 >>
DataSetDim(points) ==
  IF points = << >> THEN ConstructorThrew
  ELSE << Len(points), Len(points[1].vector) >>

\* the row callback of parseTensors (lines 162-195) on one line; st holds
\* data, numDim and whether an earlier line has thrown
ParseLine(st, line) ==
  LET trimmed == Trim(line)
  IN IF trimmed = << >> THEN st
     ELSE
       LET row == Split(trimmed, Tab)
           labelled == isNaN(row[1]) \/ CountIsOneMore(st.numDim, Len(row))
           dataPoint ==
             [index |-> Len(st.data),
              hasLabel |-> labelled,
              label |-> IF labelled THEN row[1] ELSE << >>,
              vector |-> IF labelled THEN Numbers(Tail(row)) ELSE Numbers(row)]
           dim == IF st.numDim = UndefinedDim THEN Len(dataPoint.vector)
                  ELSE st.numDim
       IN [data |-> Append(st.data, dataPoint),
           numDim |-> dim,
           threw |-> DimensionsFail(dim, Len(dataPoint.vector)),
           called |-> st.called]

\* the callback is invoked on the lines of one readHandler in order, up
\* to the first that throws; called counts the invocations
RECURSIVE ParseLines(_, _)
ParseLines(st, lines) ==
  IF lines = << >> \/ st.threw THEN st
  ELSE ParseLines([ParseLine(st, lines[1]) EXCEPT !.called = st.called + 1],
                  Tail(lines))

\* file.onload fires for the pending chunk read of the streamParse that
\* parseTensors started: readHandler with the row callback
TensorReadHandler ==
  /\ streamPc = "reading"
  /\ tensorPromise = "pending"
  /\ LET st == ReadHandlerResult(content, chunkSize,
                  [offset |-> offset, data |-> data, delivered |-> delivered,
                   pc |-> streamPc])
         lines == SubSeq(st.delivered, Len(delivered) + 1, Len(st.delivered))
         parsed == ParseLines([data |-> tensorData, numDim |-> numDim,
                               threw |-> FALSE, called |-> 0], lines)
     IN /\ offset' = st.offset
        /\ data' = st.data
        /\ delivered' = delivered \o SubSeq(lines, 1, parsed.called)
        /\ tensorData' = parsed.data
        /\ numDim' = parsed.numDim
        /\ tensorThrew' = parsed.threw
        \* an exception leaves onload: no chunk is read, resolve is not reached
        /\ streamPc' = IF parsed.threw THEN "dead" ELSE st.pc
  /\ UNCHANGED << content, chunkSize, tensorPromise, rawCallbacks >>
  /\ UNCHANGED << driverVars, seqVars, knnVars, mergeVars,
                  floatVars, analyzeVars, metaVars, subsetVars,
                  superviseVars, spriteVars >>

\* the continuation of streamParse in parseTensors: resolve(data)
TensorResolve ==
  /\ streamPc = "resolved"
  /\ tensorPromise = "pending"
  /\ tensorPromise' = "resolved"
  /\ UNCHANGED << tensorData, numDim, tensorThrew, rawCallbacks >>
  /\ UNCHANGED << driverVars, streamVars, seqVars, knnVars, mergeVars,
                  floatVars, analyzeVars, metaVars, subsetVars,
                  superviseVars, spriteVars >>

\* the continuation of parseTensors in parseRawTensors:
\* callback(new DataSet(data))
RawTensorsCallback ==
  /\ tensorPromise = "resolved"
  /\ dataSetDim = NotConstructed
  /\ dataSetDim' = DataSetDim(tensorData)
  \* the constructor throws before the callback is called
  /\ IF DataSetDim(tensorData) = ConstructorThrew
       THEN UNCHANGED << rawCallbacks, dataSetPoints >>
       ELSE /\ rawCallbacks' = rawCallbacks + 1
            /\ dataSetPoints' = tensorData
  /\ UNCHANGED << tensorData, numDim, tensorThrew, tensorPromise >>
  /\ UNCHANGED << floatLength, floatDim, floatPc, floatPoints >>
  /\ UNCHANGED << driverVars, streamVars, seqVars, knnVars, mergeVars,
                  analyzeVars, metaVars, subsetVars,
                  superviseVars, spriteVars >>

\* the points parseTensorsFromFloat32Array pushes for an array of `length`
\* elements: i runs while i < length / dim, and the vector of point i is
\* data.subarray(i * dim, i * dim + dim), whose end is clamped to the
\* length of the array; an element is named by its place in the array
Float32Points(length, dim) ==
  [p \in 1..((length + dim - 1) \div dim) |->
     [index |-> p - 1,
      hasLabel |-> FALSE,
      label |-> << >>,
      vector |-> [j \in 1..(Min(p * dim, length) - (p - 1) * dim) |->
                    (p - 1) * dim + j]]]

\* the task of runAsyncTask('Parsing tensors...') followed by the
\* continuation that passes the points on
Float32Task ==
  /\ floatPc = "task"
  /\ floatPoints' = Float32Points(floatLength, floatDim)
  /\ floatPc' = "resolved"
  /\ UNCHANGED tensorVars
  /\ UNCHANGED << floatLength, floatDim, dataSetPoints, dataSetDim >>
  /\ UNCHANGED << driverVars, streamVars, seqVars, knnVars, mergeVars,
                  analyzeVars, metaVars, subsetVars,
                  superviseVars, spriteVars >>

\* the continuation in ATSNE.componentDidMount: new DataSet(dataPoints)
Float32Then ==
  /\ floatPc = "resolved"
  /\ dataSetDim' = DataSetDim(floatPoints)
  /\ dataSetPoints' =
       IF DataSetDim(floatPoints) = ConstructorThrew THEN dataSetPoints
       ELSE floatPoints
  /\ floatPc' = "done"
  /\ UNCHANGED tensorVars
  /\ UNCHANGED << floatLength, floatDim, floatPoints >>
  /\ UNCHANGED << driverVars, streamVars, seqVars, knnVars, mergeVars,
                  analyzeVars, metaVars, subsetVars,
                  superviseVars, spriteVars >>

\* parseRawTensors(content, callback) has called parseTensors(content),
\* which has called streamParse
TensorInit ==
  /\ \/ /\ content \in TensorFiles
        /\ chunkSize \in TensorChunkSizes
        /\ offset = StreamStart.offset
        /\ data = StreamStart.data
        /\ delivered = StreamStart.delivered
        /\ streamPc = StreamStart.pc
        /\ tensorPromise = "pending"
        /\ FloatIdle
     \* or parseTensorsFromFloat32Array(data, dim) has queued its task
     \/ /\ StreamIdle
        /\ tensorPromise = "none"
        /\ floatLength \in 0..MaxFloats
        /\ floatDim \in 1..MaxFloatDim
        /\ floatPc = "task"
        /\ floatPoints = << >>
        /\ dataSetPoints = << >>
        /\ dataSetDim = NotConstructed
  /\ tensorData = << >>
  /\ numDim = UndefinedDim
  /\ tensorThrew = FALSE
  /\ rawCallbacks = 0
  /\ DriverIdle
  /\ SeqIdle
  /\ KnnIdle
  /\ MergeIdle
  /\ AnalyzeIdle
  /\ MetaIdle
  /\ SubsetIdle
  /\ SuperviseIdle
  /\ SpriteIdle

TensorNext ==
  \/ TensorReadHandler
  \/ TensorResolve
  \/ RawTensorsCallback
  \/ Float32Task
  \/ Float32Then

TensorSpec == TensorInit /\ [][TensorNext]_vars

(* --------------------- claims about parseTensors ---------------------- *)
\* C18: when a row fails inside parseTensors, the promise of parseTensors
\* settles as failed and parseRawTensors does not invoke its callback.
C18_FailureAbortsPromise ==
  tensorThrew => tensorPromise = "rejected" /\ rawCallbacks = 0

\* the vector of point p has another length than that of the first parsed
\* row, or the dimensionality is at most 1
OffendingRow(p) ==
  \/ Len(tensorData[p].vector) # Len(tensorData[1].vector)
  \/ Len(tensorData[1].vector) <= 1

RECURSIVE NonBlankRows(_)
NonBlankRows(lines) ==
  IF lines = << >> THEN << >>
  ELSE IF Trim(lines[1]) = << >> THEN NonBlankRows(Tail(lines))
  ELSE << Split(Trim(lines[1]), Tab) >> \o NonBlankRows(Tail(lines))

WithLabel(p, row) ==
  /\ tensorData[p].hasLabel
  /\ tensorData[p].label = row[1]
  /\ tensorData[p].vector = Numbers(Tail(row))
WithoutLabel(p, row) ==
  /\ ~tensorData[p].hasLabel
  /\ tensorData[p].vector = Numbers(row)

C21_PointsShareDimension ==
  dataSetDim \notin {NotConstructed, ConstructorThrew} =>
    /\ dataSetDim[1] = Len(dataSetPoints)
    /\ dataSetDim[2] = Len(dataSetPoints[1].vector)
    /\ \A p \in DOMAIN dataSetPoints :
         Len(dataSetPoints[p].vector) = dataSetDim[2]

(* ----------------------------- analyzeMetadata ------------------------ *)
\* largest number of metadata objects passed to analyzeMetadata
MaxMetaPoints == 4

\* the largest number of distinct values of a column that are counted: 50
\* in the source, 2 here
NUM_COLORS_COLOR_MAP == 2
\* Number.POSITIVE_INFINITY and Number.NEGATIVE_INFINITY
POSITIVE_INFINITY == 1000000
NEGATIVE_INFINITY == -1000000

\* the value null (and undefined, which == null does not tell apart)
Null == << -1 >>
\* the number n as the value of a metadata attribute; strings are the
\* sequences of their character codes
NumberValue(n) == << -2, n >>
IsNumberValue(v) == Len(v) = 2 /\ v[1] = -2

\* the column names 'label' and 'id'
LabelName == << 108, 97, 98, 101, 108 >>
IdName == << 105, 100 >>
\* the strings '__proto__' and 'constructor'
ProtoName == << 95, 95, 112, 114, 111, 116, 111, 95, 95 >>
ConstructorName == << 99, 111, 110, 115, 116, 114, 117, 99, 116, 111, 114 >>

\* metadata[name]: undefined when the object has no such attribute
GetAttr(obj, name) == IF name \in DOMAIN obj THEN obj[name] ELSE Null

\* String(n) for a number n >= 0
RECURSIVE Decimal(_)
Decimal(n) ==
  IF n < 10 THEN << 48 + n >> ELSE Decimal(n \div 10) \o << 48 + (n % 10) >>

\* the property key a value is converted to in map[value]
ToKey(v) == IF IsNumberValue(v) THEN Decimal(v[2]) ELSE v
\* +value and isNaN(value) for a string or number value
ToNumber(v) == IF IsNumberValue(v) THEN v[2] ELSE Number(v)
ValueIsNaN(v) == ToNumber(v) = NaN

\* a map created by new Object() inherits the properties of
\* Object.prototype: value in map holds for them before they are assigned
InheritedKeys == { ProtoName, ConstructorName }
\* value in map
InMap(map, key) == key \in DOMAIN map \/ key \in InheritedKeys

\* map[value]++ and map[value] = 1. The count of an inherited property is
\* not a number and stays NaN; the assignment to __proto__ is taken by the
\* setter of Object.prototype, which ignores a number: no own key appears
CountValue(map, key) ==
  IF InMap(map, key)
    THEN IF key \in DOMAIN map
           THEN [map EXCEPT ![key] = IF @ = NaN THEN NaN ELSE @ + 1]
         ELSE IF key = ProtoName THEN map
         ELSE SetKey(map, key, NaN)
    ELSE SetKey(map, key, 1)

\* Object.keys(map).length > NUM_COLORS_COLOR_MAP
KeysExceedLimit(map) == Cardinality(DOMAIN map) > NUM_COLORS_COLOR_MAP

Max2(a, b) == IF a > b THEN a ELSE b

\* the body of columnNames.forEach for one metadata object (lines 245-271);
\* st holds columnStats, mapOfValues and the metadata object
AnalyzeValue(st, colIndex, name) ==
  LET stats == st.stats[colIndex]
      map == st.maps[colIndex]
      value == GetAttr(st.md, name)
      counted == CountValue(map, ToKey(value))
      map1 == IF stats.tooManyUniqueValues THEN map ELSE counted
      stats1 == IF ~stats.tooManyUniqueValues /\ KeysExceedLimit(counted)
                  THEN [stats EXCEPT !.tooManyUniqueValues = TRUE]
                  ELSE stats
      \* the isNaN test and the min / max update are outside the test of
      \* tooManyUniqueValues
      stats2 == IF ValueIsNaN(value)
                  THEN [stats1 EXCEPT !.isNumeric = FALSE]
                  ELSE [stats1 EXCEPT !.min = Min(@, ToNumber(value)),
                                      !.max = Max2(@, ToNumber(value))]
      md1 == IF ~ValueIsNaN(value)
               THEN SetKey(st.md, name, NumberValue(ToNumber(value)))
               ELSE st.md
  IN IF value = Null THEN st
     ELSE [stats |-> [st.stats EXCEPT ![colIndex] = stats2],
           maps |-> [st.maps EXCEPT ![colIndex] = map1],
           md |-> md1]

RECURSIVE AnalyzeColumns(_, _, _)
AnalyzeColumns(st, names, colIndex) ==
  IF colIndex > Len(names) THEN st
  ELSE AnalyzeColumns(AnalyzeValue(st, colIndex, names[colIndex]), names,
                      colIndex + 1)

\* pointsMetadata.forEach: acc holds columnStats, mapOfValues and the
\* metadata objects visited so far, as the visit has left them
RECURSIVE AnalyzePoints(_, _, _)
AnalyzePoints(acc, names, rest) ==
  IF rest = << >> THEN acc
  ELSE LET st == AnalyzeColumns([stats |-> acc.stats, maps |-> acc.maps,
                                 md |-> rest[1]], names, 1)
       IN AnalyzePoints([stats |-> st.stats, maps |-> st.maps,
                         points |-> Append(acc.points, st.md)],
                        names, Tail(rest))

\* analyzeMetadata(columnNames, pointsMetadata): the returned columnStats,
\* with uniqueEntries as the map from label to count, and the metadata
\* objects after the call
analyzeMetadata(names, points) ==
  LET acc == AnalyzePoints(
               [stats |-> [c \in DOMAIN names |->
                             [isNumeric |-> TRUE,
                              max |-> NEGATIVE_INFINITY,
                              min |-> POSITIVE_INFINITY,
                              name |-> names[c],
                              tooManyUniqueValues |-> FALSE]],
                maps |-> [c \in DOMAIN names |-> EmptyObject],
                points |-> << >>],
               names, points)
  IN [stats |-> [c \in DOMAIN names |->
                   [isNumeric |-> acc.stats[c].isNumeric,
                    max |-> acc.stats[c].max,
                    min |-> acc.stats[c].min,
                    name |-> acc.stats[c].name,
                    tooManyUniqueValues |-> acc.stats[c].tooManyUniqueValues,
                    uniqueEntries |-> acc.maps[c]]],
      points |-> acc.points]

\* the values of the first column of a metadata object: missing, the
\* numbers 1, 2 and 10, the word a and two names of Object.prototype
AnalyzeValues ==
  { Null, << 49 >>, << 50 >>, << 49, 48 >>, << 97 >>, ProtoName, ConstructorName }
\* the values of a second column
SecondValues == { Null, << 50 >> }
ColumnLists == { << LabelName >>, << LabelName, IdName >> }
MetadataObjects(names) ==
  IF Len(names) = 1
    THEN { [n \in { names[1] } |-> v] : v \in AnalyzeValues }
    ELSE { [n \in { names[1], names[2] } |-> IF n = names[1] THEN v ELSE w] :
             v \in AnalyzeValues, w \in SecondValues }

\* the call analyzeMetadata(columnNames, pointsMetadata)
AnalyzeMetadataCall ==
  /\ analyzePc = "called"
  /\ LET result == analyzeMetadata(analyzeColumns, rawMetadata)
     IN /\ columnStats' = result.stats
        /\ analyzedMetadata' = result.points
  /\ analyzePc' = "returned"
  /\ UNCHANGED << analyzeColumns, rawMetadata >>
  /\ UNCHANGED << driverVars, streamVars, seqVars, knnVars, mergeVars,
                  tensorVars, floatVars, metaVars, subsetVars,
                  superviseVars, spriteVars >>

AnalyzeInit ==
  /\ analyzeColumns \in ColumnLists
  /\ rawMetadata \in
       UNION { [1..n -> MetadataObjects(analyzeColumns)] : n \in 0..MaxMetaPoints }
  /\ analyzedMetadata = rawMetadata
  /\ columnStats = << >>
  /\ analyzePc = "called"
  /\ DriverIdle
  /\ StreamIdle
  /\ SeqIdle
  /\ KnnIdle
  /\ MergeIdle
  /\ TensorIdle
  /\ FloatIdle
  /\ MetaIdle
  /\ SubsetIdle
  /\ SuperviseIdle
  /\ SpriteIdle

AnalyzeNext == AnalyzeMetadataCall

AnalyzeSpec == AnalyzeInit /\ [][AnalyzeNext]_vars

(* --------------------- claims about analyzeMetadata ------------------- *)
\* C26: no returned ColumnStats has tooManyUniqueValues set together with
\* a populated uniqueEntries list, and no uniqueEntries list has more
\* entries than the limit.
C26_UniqueEntriesOnlyBelowLimit ==
  analyzePc = "returned" =>
    \A c \in DOMAIN columnStats :
      /\ ~(columnStats[c].tooManyUniqueValues
             /\ columnStats[c].uniqueEntries # EmptyObject)
      /\ Cardinality(DOMAIN columnStats[c].uniqueEntries) <= NUM_COLORS_COLOR_MAP

\* the non-missing raw values of column c, and those that parse as numbers
ColumnValues(c) ==
  { GetAttr(rawMetadata[p], analyzeColumns[c]) : p \in DOMAIN rawMetadata }
    \ { Null }
ColumnNumbers(c) == { Number(v) : v \in { w \in ColumnValues(c) : ~isNaN(w) } }

\* C27: tooManyUniqueValues is true exactly when the column has more
\* distinct non-missing raw values than the limit; isNumeric is true iff
\* every non-missing value parses as a number; min and max are the
\* extremes of all values that parse as numbers, whenever they were seen.
C27_FlagAndNumericTracking ==
  analyzePc = "returned" =>
    \A c \in DOMAIN columnStats :
      /\ columnStats[c].tooManyUniqueValues
           <=> Cardinality(ColumnValues(c)) > NUM_COLORS_COLOR_MAP
      /\ columnStats[c].isNumeric <=> \A v \in ColumnValues(c) : ~isNaN(v)
      /\ \A n \in ColumnNumbers(c) :
           columnStats[c].min <= n /\ n <= columnStats[c].max
      /\ IF ColumnNumbers(c) = {}
           THEN /\ columnStats[c].min = POSITIVE_INFINITY
                /\ columnStats[c].max = NEGATIVE_INFINITY
           ELSE /\ columnStats[c].min \in ColumnNumbers(c)
                /\ columnStats[c].max \in ColumnNumbers(c)

(* ------------------------------ parseMetadata ------------------------- *)
\* largest number of lines of a metadata file, after a blank first line if
\* it has one, and of fields of a line
MaxMetaRows == 2
MaxMetaFields == 2

\* the fields of a metadata file: the empty string and the word a
MetaFields == { << >>, << 97 >> }
MetaRowSet == UNION { [1..n -> MetaFields] : n \in 1..MaxMetaFields }
\* the lines before the first record: none, or one blank line
LeadingLines == { << >>, << << << >> >> >> }
MetaFiles ==
  { FileOf(lead \o rows, nl) :
      lead \in LeadingLines,
      rows \in UNION { [1..n -> MetaRowSet] : n \in 0..MaxMetaRows },
      nl \in BOOLEAN }
\* the chunk size is the default of streamParse: a file is longer than a
\* chunk (3 bytes here) or fits into one
MetaChunkSizes == { 3, 2 * MaxMetaFields * MaxMetaRows + 1 }

\* a header test that takes every first record for a header
AlwaysHeader(line) == TRUE

\* line.indexOf('\t') >= 0
ContainsTab(line) == \E i \in DOMAIN line : line[i] = Tab

\* the forEach over columnNames that fills the metadata object of a row:
\* a field that is '' becomes null, a field the row does not have is
\* undefined, and a name that occurs twice keeps the value assigned last
RECURSIVE FillMetadata(_, _, _, _)
FillMetadata(metadata, names, rowValues, colIndex) ==
  IF colIndex > Len(names) THEN metadata
  ELSE LET value == IF colIndex > Len(rowValues) THEN Null
                    ELSE IF rowValues[colIndex] = << >> THEN Null
                    ELSE rowValues[colIndex]
       IN FillMetadata(SetKey(metadata, names[colIndex], value), names,
                       rowValues, colIndex + 1)

\* the row callback of parseMetadata (lines 292-317) on one line; st holds
\* pointsMetadata, hasHeader, lineNumber and columnNames
ParseMetaLine(st, line) ==
  IF Trim(line) = << >> THEN st
  ELSE IF st.lineNumber = 0 /\ ContainsTab(line)
    THEN [st EXCEPT !.hasHeader = TRUE,
                    !.columnNames = Split(line, Tab),
                    !.lineNumber = @ + 1]
  ELSE [st EXCEPT !.hasHeader = IF st.lineNumber = 0 THEN FALSE ELSE @,
                  !.lineNumber = @ + 1,
                  !.points = Append(@, FillMetadata(EmptyObject, st.columnNames,
                                                    Split(line, Tab), 1))]

RECURSIVE ParseMetaLines(_, _)
ParseMetaLines(st, lines) ==
  IF lines = << >> THEN st
  ELSE ParseMetaLines(ParseMetaLine(st, lines[1]), Tail(lines))

\* file.onload fires for the pending chunk read of the streamParse that
\* parseMetadata started: readHandler with the row callback
MetaReadHandler ==
  /\ streamPc = "reading"
  /\ metaPromise = "pending"
  /\ LET st == ReadHandlerResult(content, chunkSize,
                  [offset |-> offset, data |-> data, delivered |-> delivered,
                   pc |-> streamPc])
         lines == SubSeq(st.delivered, Len(delivered) + 1, Len(st.delivered))
         parsed == ParseMetaLines([points |-> metaPoints, hasHeader |-> hasHeader,
                                   lineNumber |-> lineNumber,
                                   columnNames |-> metaColumns], lines)
     IN /\ offset' = st.offset
        /\ data' = st.data
        /\ delivered' = st.delivered
        /\ streamPc' = st.pc
        /\ metaPoints' = parsed.points
        /\ hasHeader' = parsed.hasHeader
        /\ lineNumber' = parsed.lineNumber
        /\ metaColumns' = parsed.columnNames
  /\ UNCHANGED << content, chunkSize, metaPromise, metaResult >>
  /\ UNCHANGED << driverVars, seqVars, knnVars, mergeVars, tensorVars,
                  floatVars, analyzeVars, subsetVars,
                  superviseVars, spriteVars >>

\* the continuation of streamParse in parseMetadata: resolve({pointsInfo,
\* stats: analyzeMetadata(columnNames, pointsMetadata)}); analyzeMetadata
\* works on the metadata objects themselves
MetaResolve ==
  /\ streamPc = "resolved"
  /\ metaPromise = "pending"
  /\ LET result == analyzeMetadata(metaColumns, metaPoints)
     IN /\ metaPoints' = result.points
        /\ metaResult' = [pointsInfo |-> result.points, stats |-> result.stats]
  /\ metaPromise' = "resolved"
  /\ UNCHANGED << hasHeader, lineNumber, metaColumns >>
  /\ UNCHANGED << driverVars, streamVars, seqVars, knnVars, mergeVars,
                  tensorVars, floatVars, analyzeVars, subsetVars,
                  superviseVars, spriteVars >>

\* parseMetadata(content) has called streamParse
MetaInit ==
  /\ content \in MetaFiles
  /\ chunkSize \in MetaChunkSizes
  /\ offset = StreamStart.offset
  /\ data = StreamStart.data
  /\ delivered = StreamStart.delivered
  /\ streamPc = StreamStart.pc
  /\ metaPoints = << >>
  /\ hasHeader = FALSE
  /\ lineNumber = 0
  /\ metaColumns = << LabelName >>
  /\ metaPromise = "pending"
  /\ metaResult = << >>
  /\ DriverIdle
  /\ SeqIdle
  /\ KnnIdle
  /\ MergeIdle
  /\ TensorIdle
  /\ FloatIdle
  /\ AnalyzeIdle
  /\ SubsetIdle
  /\ SuperviseIdle
  /\ SpriteIdle

MetaNext == MetaReadHandler \/ MetaResolve

MetaSpec == MetaInit /\ [][MetaNext]_vars

(* ---------------------- claims about parseMetadata -------------------- *)
\* the lines handed to the row callback that are not blank
RECURSIVE NonBlankLines(_)
NonBlankLines(lines) ==
  IF lines = << >> THEN << >>
  ELSE IF Trim(lines[1]) = << >> THEN NonBlankLines(Tail(lines))
  ELSE << lines[1] >> \o NonBlankLines(Tail(lines))

\* field c of a line as a metadata value: '' and a missing field are
\* missing values
FieldValue(line, c) ==
  LET fields == Split(line, Tab)
  IN IF c > Len(fields) \/ fields[c] = << >> THEN Null ELSE fields[c]

MaxDataSets == 2
NumParentPoints == 2

\* the vectors of the first DataSet have one component: 0 for the first
\* point, 2 for the second, and so on
ParentVector(k) == << 2 * (k - 1) >>
\* the direction argument of projectLinear on these DataSets
SubsetDirs == {2}
\* the operations, as recorded in subsetOp with the DataSet they were
\* called on
GetSubsetOp == "getSubset"
NormalizeOp == "normalize"
ProjectLinearOp == "projectLinear"

\* the argument subset when it is absent
NoSubset == << -1 >>
\* the subset arguments for a DataSet of n points: absent, the empty list,
\* and the lists of one or two indices
SubsetArgs(n) ==
  { NoSubset } \cup UNION { [1..m -> 0..(n - 1)] : m \in 0..2 }

\* a copy that shares the projections object of the point it copies
AliasedProjections(old, fresh) == old

\* projections: {}: the copy of a point gets the new object
SubsetProjections(old, fresh) == fresh

\* vector: dp.vector.slice(): the copy of a point gets the new array
SubsetVector(old, fresh) == fresh

\* getSubset(subset) on DataSet d: the points of the new DataSet, given the
\* number of vector and projections objects that exist
SubsetPoints(d, subset) ==
  LET points == dataSets[d].points
      pointsSubset ==
        IF subset # NoSubset /\ Len(subset) > 0
          THEN [k \in DOMAIN subset |-> points[subset[k] + 1]]
          ELSE points
  IN [k \in DOMAIN pointsSubset |->
        [metadata |-> pointsSubset[k].metadata,
         index |-> pointsSubset[k].index,
         vector |-> SubsetVector(pointsSubset[k].vector, Len(vectorHeap) + k),
         projections |-> SubsetProjections(pointsSubset[k].projections,
                                           Len(projectionHeap) + k),
         copyOf |-> pointsSubset[k].vector]]

StripCopyOf(points) ==
  [k \in DOMAIN points |->
     [metadata |-> points[k].metadata, index |-> points[k].index,
      vector |-> points[k].vector, projections |-> points[k].projections]]

\* getSubset(subset) on DataSet d, with new DataSet(points, ...)
GetSubset(d, subset) ==
  /\ Len(dataSets) < MaxDataSets
  /\ LET points == SubsetPoints(d, subset)
     IN /\ vectorHeap' =
             vectorHeap \o [k \in DOMAIN points |-> vectorHeap[points[k].copyOf]]
        /\ projectionHeap' =
             projectionHeap \o [k \in DOMAIN points |-> EmptyObject]
        /\ dataSets' = Append(dataSets, [points |-> StripCopyOf(points),
                                         projections |-> {}])
  /\ subsetOp' = << GetSubsetOp, d >>
  /\ UNCHANGED << driverVars, streamVars, seqVars, knnVars, mergeVars,
                  tensorVars, floatVars, analyzeVars, metaVars,
                  superviseVars, spriteVars >>

\* centroid of one-component vectors, as the sum of the components and
\* their number
centroid(vectors) ==
  LET RECURSIVE Sum(_)
      Sum(vs) == IF vs = << >> THEN 0 ELSE vs[1][1] + Sum(Tail(vs))
  IN [sum |-> Sum(vectors), n |-> Len(vectors)]
\* sub(a, centroid), multiplied by the number of points
sub(a, c) == << c.n * a[1] - c.sum >>
norm2(a) == a[1] * a[1]
\* unit(a): a divided by its length
unit(a) == << IF a[1] > 0 THEN 1 ELSE -1 >>

\* the loop of normalize from point id on; sub either writes into its
\* first argument and returns it or returns a new array, unit writes into
\* its argument. An array that no other point refers to is unreachable
\* once its point refers to the new array: its place is taken by the new
\* one. `held` are the arrays the points of the other DataSets refer to
RECURSIVE NormalizeLoop(_, _, _, _, _, _)
NormalizeLoop(heap, points, id, c, subInPlace, held) ==
  IF id > Len(points) THEN [heap |-> heap, points |-> points]
  ELSE LET ref == points[id].vector
           diff == sub(heap[ref], c)
           value == IF norm2(diff) > 0 THEN unit(diff) ELSE diff
           shared == \/ ref \in held
                     \/ \E j \in DOMAIN points : j # id /\ points[j].vector = ref
       IN IF subInPlace \/ ~shared
            THEN NormalizeLoop([heap EXCEPT ![ref] = value],
                               points, id + 1, c, subInPlace, held)
            ELSE NormalizeLoop(Append(heap, value),
                               [points EXCEPT ![id].vector = Len(heap) + 1],
                               id + 1, c, subInPlace, held)

\* normalize() on DataSet d
Normalize(d) ==
  /\ \E subInPlace \in BOOLEAN :
       LET points == dataSets[d].points
           c == centroid([k \in DOMAIN points |-> vectorHeap[points[k].vector]])
           held == UNION { { dataSets[e].points[k].vector :
                               k \in DOMAIN dataSets[e].points } :
                             e \in DOMAIN dataSets \ { d } }
           result == NormalizeLoop(vectorHeap, points, 1, c, subInPlace, held)
       IN /\ vectorHeap' = result.heap
          /\ dataSets' = [dataSets EXCEPT ![d].points = result.points]
  /\ subsetOp' = << NormalizeOp, d >>
  /\ UNCHANGED projectionHeap
  /\ UNCHANGED << driverVars, streamVars, seqVars, knnVars, mergeVars,
                  tensorVars, floatVars, analyzeVars, metaVars,
                  superviseVars, spriteVars >>

\* projectLinear(dir, label) on DataSet d, for a direction of one
\* component: dot(vector, dir) is written into the projections of each
\* point
SubsetProjectLinear(d, dir, label) ==
  /\ dataSets' = [dataSets EXCEPT ![d].projections = @ \cup { label }]
  /\ LET points == dataSets[d].points
         RECURSIVE Write(_, _)
         Write(heap, id) ==
           IF id > Len(points) THEN heap
           ELSE Write([heap EXCEPT ![points[id].projections] =
                         SetKey(@, label,
                                << NoEngine, dir, vectorHeap[points[id].vector][1] * dir >>)],
                      id + 1)
     IN projectionHeap' = Write(projectionHeap, 1)
  /\ subsetOp' = << ProjectLinearOp, d >>
  /\ UNCHANGED vectorHeap
  /\ UNCHANGED << driverVars, streamVars, seqVars, knnVars, mergeVars,
                  tensorVars, floatVars, analyzeVars, metaVars,
                  superviseVars, spriteVars >>

\* a DataSet of NumParentPoints points was constructed
SubsetInit ==
  /\ vectorHeap = [k \in 1..NumParentPoints |-> ParentVector(k)]
  /\ projectionHeap = [k \in 1..NumParentPoints |-> EmptyObject]
  /\ dataSets =
       << [points |-> [k \in 1..NumParentPoints |->
                         [metadata |-> k, index |-> k - 1, vector |-> k,
                          projections |-> k]],
           projections |-> {}] >>
  /\ subsetOp = << 0, 0 >>
  /\ DriverIdle
  /\ StreamIdle
  /\ SeqIdle
  /\ KnnIdle
  /\ MergeIdle
  /\ TensorIdle
  /\ FloatIdle
  /\ AnalyzeIdle
  /\ MetaIdle
  /\ SuperviseIdle
  /\ SpriteIdle

SubsetNext ==
  \/ \E d \in DOMAIN dataSets :
       \E subset \in SubsetArgs(Len(dataSets[d].points)) : GetSubset(d, subset)
  \/ \E d \in DOMAIN dataSets : Normalize(d)
  \/ \E d \in DOMAIN dataSets, dir \in SubsetDirs, label \in LinearLabels :
       SubsetProjectLinear(d, dir, label)

SubsetSpec == SubsetInit /\ [][SubsetNext]_vars

(* ------------------------ claims about getSubset ---------------------- *)
\* the vector components and the projection entries of the points of a
\* DataSet
View(e) ==
  [k \in DOMAIN dataSets[e].points |->
     [vector |-> vectorHeap[dataSets[e].points[k].vector],
      projections |-> projectionHeap[dataSets[e].points[k].projections]]]

\* C29: normalizing a DataSet or writing projections into it leaves every
\* vector component and every projection entry of every other DataSet
\* unchanged, whether the other one is the parent or a subset, and
\* getSubset itself changes no existing DataSet and copies the vectors of
\* the selected points.
C29_SubsetsNeverAliased ==
  [][/\ subsetOp'[1] \in { NormalizeOp, ProjectLinearOp } =>
          \A e \in DOMAIN dataSets \ { subsetOp'[2] } : View(e)' = View(e)
     /\ subsetOp'[1] = GetSubsetOp =>
          /\ \A e \in DOMAIN dataSets : View(e)' = View(e)
          /\ \A k \in DOMAIN View(Len(dataSets))' :
               View(Len(dataSets))'[k].projections = EmptyObject]_vars

\* a subset was normalized and projected, and its vectors and projections now differ from the parent's, which
\* are as they were constructed
C29_Witness ==
  /\ Len(dataSets) >= 2
  /\ subsetOp = << ProjectLinearOp, 2 >>
  /\ Len(vectorHeap) = NumParentPoints + Len(dataSets[2].points)
  /\ \E k \in DOMAIN dataSets[1].points :
       /\ View(1)[k].vector = << 2 >>
       /\ View(1)[k].projections = EmptyObject
  /\ \A k \in DOMAIN dataSets[2].points :
       /\ View(2)[k].vector \in { << 1 >>, << -1 >> }
       /\ View(2)[k].projections # EmptyObject

(* ------------------ setSupervision, setSuperviseFactor ---------------- *)
\* an optional argument is the empty tuple when it is null or undefined and
\* the tuple of its value otherwise
NoArgument == << >>
SuperviseColumnArgs == { NoArgument, << LabelName >> }
SuperviseInputArgs == { NoArgument, << "x" >> }
SuperviseFactorArgs == { NoArgument, << 1 >> }
\* the perplexity (in tenths) and the dimension of the runs started
\* between the supervision calls
SupervisePerplexities == {5}
SuperviseTsneDims == {2}
\* the values of the supervise column in the metadata of a point: null (an
\* empty cell of the metadata file), the string a, the number 1
SuperviseValues == { Null, << 97 >>, NumberValue(1) }

\* metadata[superviseColumn].toString() throws a TypeError on null and
\* undefined
ToStringThrows(v) == v = Null
\* value.toString() of a string or a number
toString(v) == ToKey(v)

\* the labels array filled by the forEach over the sampled indices
SuperviseLabelsOf(sampled) ==
  [i \in DOMAIN sampled |-> toString(columnValues[sampled[i]])]

\* this.tsne.setSupervision(labels, input) on the engine the handle refers to
EngineSetSupervision(eng, e, labels, input) ==
  [eng EXCEPT ![e].labels = labels, ![e].input = input]

\* this.tsne.setSuperviseFactor(factor)
EngineSetSuperviseFactor(eng, e, factor) == [eng EXCEPT ![e].factor = factor]

\* setSupervision(superviseColumn, superviseInput)
SetSupervision(column, input) ==
  LET sampledIndices == SampledIndices(shuffledDataIndices)
      threw == /\ column # NoArgument
               /\ \E i \in DOMAIN sampledIndices :
                    ToStringThrows(columnValues[sampledIndices[i]])
      labels == IF column # NoArgument
                  THEN SuperviseLabelsOf(sampledIndices)
                  ELSE superviseLabels
      newInput == IF input # NoArgument THEN input[1] ELSE superviseInput
  IN /\ superviseCall' = [op |-> "setSupervision", threw |-> threw]
     /\ IF threw
          THEN \* the TypeError leaves the method inside the forEach
               UNCHANGED << superviseLabels, superviseInput, engine >>
          ELSE /\ superviseLabels' = labels
               /\ superviseInput' = newInput
               /\ engine' = IF tsne # NoEngine
                              THEN EngineSetSupervision(engine, tsne, labels,
                                                        newInput)
                              ELSE engine
     /\ UNCHANGED << shuffledDataIndices, projections, pointProjections,
                     nearest, nearestK, tSNEIteration, tSNEShouldPause,
                     tSNEShouldStop, superviseFactor, hasTSNERun, tsne, run,
                     numRuns, cbNull, cbIter, cbLast, lastCall,
                     stopRequested, columnValues >>
     /\ UNCHANGED << streamVars, seqVars, knnVars, mergeVars, tensorVars,
                     floatVars, analyzeVars, metaVars, subsetVars,
                     spriteVars >>

\* setSuperviseFactor(superviseFactor)
SetSuperviseFactor(factor) ==
  /\ superviseCall' = [op |-> "setSuperviseFactor", threw |-> FALSE]
  /\ IF factor # NoArgument
       THEN /\ superviseFactor' = factor[1]
            /\ engine' = IF tsne # NoEngine
                           THEN EngineSetSuperviseFactor(engine, tsne,
                                                         factor[1])
                           ELSE engine
       ELSE UNCHANGED << superviseFactor, engine >>
  /\ UNCHANGED << shuffledDataIndices, projections, pointProjections,
                  nearest, nearestK, tSNEIteration, tSNEShouldPause,
                  tSNEShouldStop, superviseLabels, superviseInput,
                  hasTSNERun, tsne, run, numRuns, cbNull, cbIter, cbLast,
                  lastCall, stopRequested, columnValues >>
  /\ UNCHANGED << streamVars, seqVars, knnVars, mergeVars, tensorVars,
                  floatVars, analyzeVars, metaVars, subsetVars,
                  spriteVars >>

\* a DataSet whose points carry the supervise column
SuperviseInit ==
  /\ DriverInit
  /\ columnValues \in [Points -> SuperviseValues]
  /\ superviseCall = NoCall
  /\ StreamIdle /\ SeqIdle /\ KnnIdle /\ MergeIdle /\ TensorIdle
  /\ FloatIdle /\ AnalyzeIdle /\ MetaIdle /\ SubsetIdle /\ SpriteIdle

\* the supervision setters together with the start of the runs of the
\* optimizer: the engine handle is created by projectTSNE and cleared by
\* the first step of a run that was stopped before it; the later frames of
\* a run neither read nor write the supervision fields
SuperviseNext ==
  \/ \E column \in SuperviseColumnArgs, input \in SuperviseInputArgs :
       SetSupervision(column, input)
  \/ \E factor \in SuperviseFactorArgs : SetSuperviseFactor(factor)
  \/ \E p \in SupervisePerplexities, d \in SuperviseTsneDims :
       ProjectTSNE(p, d)
  \/ \E r \in Runs : KnnThen(r)
  \/ \E r \in Runs : InitTask(r)
  \/ StopTSNE

SuperviseSpec == SuperviseInit /\ [][SuperviseNext]_vars

(* ---------------------- claims about supervision ---------------------- *)
\* C31: setSupervision(column, input) builds one stringified label per
\* sampled point, in sample order, from the named column, and forwards the
\* labels and the input to the engine if and only if an engine handle
\* exists; setSuperviseFactor(weight) forwards the weight likewise; values
\* set while no engine exists are retained and handed by the next
\* projectTSNE to the engine it creates, before that engine is initialized.
C31_SupervisionPassThrough ==
  [][/\ \A column \in SuperviseColumnArgs, input \in SuperviseInputArgs :
          SetSupervision(column, input) =>
            LET sampled == SampledIndices(shuffledDataIndices)
            IN /\ column # NoArgument =>
                    /\ Len(superviseLabels') = Len(sampled)
                    /\ \A i \in DOMAIN sampled :
                         columnValues[sampled[i]] # Null =>
                           superviseLabels'[i] = ToKey(columnValues[sampled[i]])
               /\ input # NoArgument => superviseInput' = input[1]
               /\ IF tsne # NoEngine
                    THEN /\ engine'[tsne].labels = superviseLabels'
                         /\ engine'[tsne].input = superviseInput'
                    ELSE engine' = engine
     /\ \A factor \in SuperviseFactorArgs \ { NoArgument } :
          SetSuperviseFactor(factor) =>
            /\ superviseFactor' = factor[1]
            /\ IF tsne # NoEngine
                 THEN engine'[tsne].factor = factor[1]
                 ELSE engine' = engine
     /\ \A p \in SupervisePerplexities, d \in SuperviseTsneDims :
          ProjectTSNE(p, d) =>
            /\ engine'[tsne'].labels = superviseLabels
            /\ engine'[tsne'].input = superviseInput
            /\ engine'[tsne'].factor = superviseFactor
            /\ ~engine'[tsne'].inited
            /\ UNCHANGED << superviseLabels, superviseInput,
                            superviseFactor >>]_vars

(* -------------------- retrieveSpriteAndMetadataInfo ------------------- *)
MAX_SPRITE_IMAGE_SIZE_PX == 8192

\* the widths and heights of the sprite images the server may return
SpriteSizes == { 1, MAX_SPRITE_IMAGE_SIZE_PX, MAX_SPRITE_IMAGE_SIZE_PX + 1 }
\* the metadata objects parseMetadata resolves with, named by the file they
\* were parsed from, and the object {} of Promise.resolve({})
ParsedMetadata == { "a.tsv", "b.tsv" }
EmptyInfo == "{}"
\* request.status of the metadata request
HttpStatuses == { 200, 404 }

\* spriteImage.height > MAX_SPRITE_IMAGE_SIZE_PX ||
\*   spriteImage.width > MAX_SPRITE_IMAGE_SIZE_PX, for an image << w, h >>
Oversized(image) ==
  image[2] > MAX_SPRITE_IMAGE_SIZE_PX \/ image[1] > MAX_SPRITE_IMAGE_SIZE_PX

\* request.onreadystatechange with readyState 4: status 200 resolves the
\* metadata promise with the promise of parseMetadata, any other status
\* starts the FileReader of the error message
MetadataLoaded(status) ==
  /\ metadataPromise[1] = "pending"
  /\ metadataPromise' =
       IF status = 200 THEN << "parsing", "" >> ELSE << "readingError", "" >>
  /\ UNCHANGED << spriteArgs, spritesPromise, spriteImage, allPromise,
                  spriteCallbacks >>
  /\ UNCHANGED << driverVars, streamVars, seqVars, knnVars, mergeVars,
                  tensorVars, floatVars, analyzeVars, metaVars, subsetVars,
                  superviseVars >>

\* the promise of parseMetadata resolves with the parsed metadata
MetadataParsed(md) ==
  /\ metadataPromise[1] = "parsing"
  /\ metadataPromise' = << "resolved", md >>
  /\ UNCHANGED << spriteArgs, spritesPromise, spriteImage, allPromise,
                  spriteCallbacks >>
  /\ UNCHANGED << driverVars, streamVars, seqVars, knnVars, mergeVars,
                  tensorVars, floatVars, analyzeVars, metaVars, subsetVars,
                  superviseVars >>

\* errorReader.onload: reject()
MetadataErrorRead ==
  /\ metadataPromise[1] = "readingError"
  /\ metadataPromise' = << "rejected", "" >>
  /\ UNCHANGED << spriteArgs, spritesPromise, spriteImage, allPromise,
                  spriteCallbacks >>
  /\ UNCHANGED << driverVars, streamVars, seqVars, knnVars, mergeVars,
                  tensorVars, floatVars, analyzeVars, metaVars, subsetVars,
                  superviseVars >>

\* fetchImage: image.onload resolves with the image
ImageLoaded(width, height) ==
  /\ spritesPromise = "pending"
  /\ spritesPromise' = "resolved"
  /\ spriteImage' = << width, height >>
  /\ UNCHANGED << spriteArgs, metadataPromise, allPromise, spriteCallbacks >>
  /\ UNCHANGED << driverVars, streamVars, seqVars, knnVars, mergeVars,
                  tensorVars, floatVars, analyzeVars, metaVars, subsetVars,
                  superviseVars >>

\* fetchImage: image.onerror rejects
ImageError ==
  /\ spritesPromise = "pending"
  /\ spritesPromise' = "rejected"
  /\ UNCHANGED << spriteArgs, metadataPromise, spriteImage, allPromise,
                  spriteCallbacks >>
  /\ UNCHANGED << driverVars, streamVars, seqVars, knnVars, mergeVars,
                  tensorVars, floatVars, analyzeVars, metaVars, subsetVars,
                  superviseVars >>

\* Promise.all([metadataPromise, spritesPromise]) settles: it rejects as
\* soon as one of the two has rejected and fulfils when both have resolved
PromiseAll ==
  /\ allPromise = "pending"
  /\ \/ /\ metadataPromise[1] = "rejected" \/ spritesPromise = "rejected"
        /\ allPromise' = "rejected"
     \/ /\ metadataPromise[1] = "resolved" /\ spritesPromise = "resolved"
        /\ allPromise' = "fulfilled"
  /\ UNCHANGED << spriteArgs, metadataPromise, spritesPromise, spriteImage,
                  spriteCallbacks >>
  /\ UNCHANGED << driverVars, streamVars, seqVars, knnVars, mergeVars,
                  tensorVars, floatVars, analyzeVars, metaVars, subsetVars,
                  superviseVars >>

\* the continuation .then((values) => ...): the only one registered, there
\* is no handler for a rejection
PromiseAllThen ==
  /\ allPromise = "fulfilled"
  /\ allPromise' = "done"
  /\ spriteCallbacks' =
       IF spriteImage # << >> /\ Oversized(spriteImage)
         THEN spriteCallbacks
         ELSE Append(spriteCallbacks,
                     [metadata |-> metadataPromise[2],
                      spriteImage |-> spriteImage])
  /\ UNCHANGED << spriteArgs, metadataPromise, spritesPromise, spriteImage >>
  /\ UNCHANGED << driverVars, streamVars, seqVars, knnVars, mergeVars,
                  tensorVars, floatVars, analyzeVars, metaVars, subsetVars,
                  superviseVars >>

\* retrieveSpriteAndMetadataInfo(metadataPath, spriteImagePath, ...) has
\* returned: each path is set or empty, the requests of the paths that are
\* set are under way
SpriteInit ==
  /\ spriteArgs \in [metadataPath : BOOLEAN, spriteImagePath : BOOLEAN]
  /\ metadataPromise = IF spriteArgs.metadataPath
                         THEN << "pending", "" >>
                         ELSE << "resolved", EmptyInfo >>
  /\ spritesPromise = IF spriteArgs.spriteImagePath THEN "pending"
                      ELSE "rejected"
  /\ spriteImage = << >>
  /\ allPromise = "pending"
  /\ spriteCallbacks = << >>
  /\ DriverIdle /\ StreamIdle /\ SeqIdle /\ KnnIdle /\ MergeIdle /\ TensorIdle
  /\ FloatIdle /\ AnalyzeIdle /\ MetaIdle /\ SubsetIdle /\ SuperviseIdle

SpriteNext ==
  \/ \E status \in HttpStatuses : MetadataLoaded(status)
  \/ \E md \in ParsedMetadata : MetadataParsed(md)
  \/ MetadataErrorRead
  \/ \E w \in SpriteSizes, h \in SpriteSizes : ImageLoaded(w, h)
  \/ ImageError
  \/ PromiseAll
  \/ PromiseAllThen

SpriteSpec == SpriteInit /\ [][SpriteNext]_vars

(* -------------- claims about retrieveSpriteAndMetadataInfo ------------ *)
\* Promise.all has settled and its continuation, if it was to run, has run
AllSettled == allPromise \in { "rejected", "done" }

\* C34: no image wider or taller than MAX_SPRITE_IMAGE_SIZE_PX is passed to
\* the callback, and once the metadata was fetched and parsed the callback
\* is invoked exactly once with that metadata, also when no sprite image
\* path was given or the image was rejected as oversized.
C34_OversizedRejectedMetadataDelivered ==
  /\ \A n \in DOMAIN spriteCallbacks :
       spriteCallbacks[n].spriteImage = << >>
         \/ ~Oversized(spriteCallbacks[n].spriteImage)
  /\ Len(spriteCallbacks) <= 1
  /\ (/\ spriteArgs.metadataPath
      /\ metadataPromise[1] = "resolved"
      /\ AllSettled) =>
       /\ Len(spriteCallbacks) = 1
       /\ spriteCallbacks[1].metadata = metadataPromise[2]

=============================================================================
